---- MODULE Spec2Model ----
(***************************************************************************)
(* Command dispatch, correlation, retry and circuit breaking of the        *)
(* browser MCP server: Server (server.ts), RetryManager, ErrorHandler and  *)
(* ClientManager.  One action per handler / timer callback / continuation  *)
(* of the Node.js event loop; every action is one run-to-completion step.  *)
(***************************************************************************)
EXTENDS Integers, Sequences, FiniteSets, TLC

VARIABLES now, conns, clients, pendingCommands, timers, circuitBreakerState,
          inv,
          lastReply,        \* per connection: the last frame sent back to it
          executedCommand,  \* the last command CommandQueue.executeCommand ran
          accepted,         \* history: command frames accepted at this instant
          calc,             \* a direct call of ErrorHandler.calculateRetryDelay
          errorHandlerConfig,  \* the ErrorHandlerConfig of the ErrorHandler
          commandQueue,     \* a CommandQueue: queue, processing, history
          ext,              \* the extension's background worker
          errorContext      \* a direct call of handleError or categorizeError

\* the server, its registries and its retry manager
server == <<now, conns, clients, pendingCommands, timers, circuitBreakerState,
            inv, lastReply, executedCommand, accepted, calc,
            errorHandlerConfig>>

\* the parts that the server's handlers neither read nor write
components == <<commandQueue, ext, errorContext>>

vars == <<now, conns, clients, pendingCommands, timers, circuitBreakerState,
          inv, lastReply, executedCommand, accepted, calc,
          errorHandlerConfig, components>>

(***************************************************************************)
(* Bounds of the model.                                                    *)
(***************************************************************************)
MaxTicks == 3            \* clock ticks in Spec and SpecConcurrent
MaxSessionTicks == 5     \* clock ticks in SpecSessions
MaxFailures == 6         \* a signature with this many failures is called no more
MaxSessionFailures == 1  \* the same, in SpecSessions
MaxRand == 2             \* distinct outcomes of Math.random() in an id
MaxFrameTicks == 3       \* clock ticks in SpecFrames
MaxToolFailures == 2     \* failures of a signature in SpecTools
MaxLiveTicks == 4        \* clock ticks in SpecLive
MaxLiveFailures == 2     \* failures of a signature in SpecLive
MaxAttemptIndex == 4     \* largest retryCount given to calculateRetryDelay
MaxSingleTicks == 1      \* clock ticks in SpecSingleAttempt
MaxTermTicks == 2        \* clock ticks at which SpecTerminate takes requests
MaxTermFailures == 2     \* failures of a signature in SpecTerminate
MaxQueued == 4           \* enqueue calls made on the CommandQueue
MaxOpens == 2            \* connections of the extension the server accepts
MaxPopup == 2            \* messages the popup sends to the background worker
MaxRegistryTicks == 5    \* clock ticks of SpecRegistry (a sweep needs five)
MaxWindowTicks == 1      \* clock ticks of SpecWindow
MaxJitter == 4           \* Math.random() is one of 0/4, 1/4, 2/4, 3/4

(***************************************************************************)
(* Program constants.                                                      *)
(***************************************************************************)
TickMs == 30000                     \* period of the heartbeat interval timer
commandTimeout == 30000             \* pending-command timer
staleTimeout == 120000              \* cleanupStaleConnections
circuitBreakerThreshold == 5        \* createRetryManager
circuitBreakerTimeout == 60000      \* createRetryManager
reconnectDelay == 5000              \* CONFIG.reconnectDelay
maxReconnectAttempts == 10          \* CONFIG.maxReconnectAttempts
configReconnectDelay == 1000        \* handleConfigUpdate
windowMs == 60000                   \* checkRateLimit
maxRequests == 100                  \* checkRateLimit

ClientIds == {"c1", "c2"}
Slots == {1, 2}
Rand == 1..MaxRand
Kinds == {"navigate", "click"}
UnknownKind == "bogus"              \* a kind that validTypes does not list
Args == {"{}"}
NoId == 0
NoClient == "none"
NoError == "none"
NoCommand == [type |-> "none", params |-> "none", clientId |-> NoClient]

(***************************************************************************)
(* Error messages.  A message is known by the substrings that              *)
(* extractErrorCode looks for in its lower-cased text.                     *)
(***************************************************************************)
TimeoutMessage == "Command timeout"
AgentMessages == {"Network error", "Tab not found", "Invalid parameters",
                  "Permission denied", "Invalid URL"}
Messages == AgentMessages \cup {TimeoutMessage}

\* messages the extension's commands fail with, and one per searched word
ExtensionMessages ==
  {"Cloudflare challenge timeout", "Cloudflare block", "Selector is invalid",
   "Element not visible", "Element not interactable", "Navigation failed",
   "Set localStorage execution failed", "Set cookie execution failed",
   "Script error", "No active tab", "Page load timeout"}

Substrings(message) ==
  CASE message = "Command timeout"    -> {"timeout"}
    [] message = "Cloudflare challenge timeout" -> {"cloudflare", "timeout"}
    [] message = "Cloudflare block"   -> {"cloudflare"}
    [] message = "Selector is invalid" -> {"selector"}
    [] message = "Element not visible" -> {"element not visible"}
    [] message = "Element not interactable" -> {"element not interactable"}
    [] message = "Navigation failed"  -> {"navigation"}
    [] message = "Set localStorage execution failed" -> {"storage"}
    [] message = "Set cookie execution failed" -> {"cookie"}
    [] message = "Script error"       -> {"script"}
    [] message = "Page load timeout"  -> {"timeout"}
    [] message = "Network error"      -> {"network"}
    [] message = "Tab not found"      -> {"tab not found", "not found"}
    [] message = "Permission denied"  -> {"permission"}
    [] message = "Invalid URL"        -> {"invalid url"}
    [] message = "Invalid parameters" -> {}
    [] OTHER                          -> {}

includes(message, part) == part \in Substrings(message)

extractErrorCode(message) ==
  IF includes(message, "timeout") THEN "TIMEOUT"
  ELSE IF includes(message, "network") THEN "NETWORK_ERROR"
  ELSE IF includes(message, "cloudflare") THEN "CLOUDFLARE_BLOCK"
  ELSE IF includes(message, "selector") \/ includes(message, "not found")
       THEN "SELECTOR_NOT_FOUND"
  ELSE IF includes(message, "element not visible") THEN "ELEMENT_NOT_VISIBLE"
  ELSE IF includes(message, "element not interactable")
       THEN "ELEMENT_NOT_INTERACTABLE"
  ELSE IF includes(message, "navigation") THEN "NAVIGATION_FAILED"
  ELSE IF includes(message, "permission") THEN "PERMISSION_DENIED"
  ELSE IF includes(message, "invalid url") THEN "INVALID_URL"
  ELSE IF includes(message, "tab not found") THEN "TAB_NOT_FOUND"
  ELSE IF includes(message, "storage") THEN "STORAGE_ERROR"
  ELSE IF includes(message, "cookie") THEN "COOKIE_ERROR"
  ELSE IF includes(message, "script") THEN "SCRIPT_ERROR"
  ELSE "UNKNOWN"

\* the ErrorCode enum
ErrorCodes ==
  {"TIMEOUT", "NETWORK_ERROR", "CLOUDFLARE_BLOCK", "SELECTOR_NOT_FOUND",
   "INVALID_PARAMS", "AUTHENTICATION_FAILED", "RATE_LIMIT_EXCEEDED",
   "COMMAND_FAILED", "ELEMENT_NOT_FOUND", "ELEMENT_NOT_VISIBLE",
   "ELEMENT_NOT_INTERACTABLE", "NAVIGATION_FAILED", "PERMISSION_DENIED",
   "INVALID_URL", "TAB_NOT_FOUND", "STORAGE_ERROR", "COOKIE_ERROR",
   "SCRIPT_ERROR", "UNKNOWN"}

\* mutant: TAB_NOT_FOUND is filed with the selector errors
categorizeErrorTabAsSelector(errorCode) ==
  CASE errorCode \in {"NETWORK_ERROR", "CLOUDFLARE_BLOCK", "NAVIGATION_FAILED"}
         -> "NETWORK"
    [] errorCode \in {"SELECTOR_NOT_FOUND", "ELEMENT_NOT_FOUND",
                      "ELEMENT_NOT_VISIBLE", "ELEMENT_NOT_INTERACTABLE",
                      "TAB_NOT_FOUND"}
         -> "SELECTOR"
    [] errorCode = "PERMISSION_DENIED" -> "PERMISSION"
    [] errorCode = "TIMEOUT" -> "TIMEOUT"
    [] errorCode \in {"INVALID_PARAMS", "INVALID_URL"} -> "VALIDATION"
    [] OTHER -> "SYSTEM"

categorizeError(errorCode) ==
  CASE errorCode \in {"NETWORK_ERROR", "CLOUDFLARE_BLOCK", "NAVIGATION_FAILED"}
         -> "NETWORK"
    [] errorCode \in {"SELECTOR_NOT_FOUND", "ELEMENT_NOT_FOUND",
                      "ELEMENT_NOT_VISIBLE", "ELEMENT_NOT_INTERACTABLE"}
         -> "SELECTOR"
    [] errorCode \in {"PERMISSION_DENIED", "TAB_NOT_FOUND"} -> "PERMISSION"
    [] errorCode = "TIMEOUT" -> "TIMEOUT"
    [] errorCode \in {"INVALID_PARAMS", "INVALID_URL"} -> "VALIDATION"
    [] OTHER -> "SYSTEM"

isRecoverable(errorCode) ==
  errorCode \in {"TIMEOUT", "NETWORK_ERROR", "SELECTOR_NOT_FOUND",
                 "ELEMENT_NOT_FOUND", "ELEMENT_NOT_VISIBLE",
                 "ELEMENT_NOT_INTERACTABLE", "NAVIGATION_FAILED",
                 "CLOUDFLARE_BLOCK"}

(***************************************************************************)
(* Retry policies of the retry manager the server runs with.               *)
(***************************************************************************)
defaultRetryStrategy ==
  [maxRetries |-> 3, baseDelay |-> 1000, maxDelay |-> 10000,
   backoffMultiplier |-> 2,
   retryableErrors |-> {"TIMEOUT", "NETWORK_ERROR", "SELECTOR_NOT_FOUND",
                        "ELEMENT_NOT_FOUND", "ELEMENT_NOT_VISIBLE",
                        "ELEMENT_NOT_INTERACTABLE", "NAVIGATION_FAILED",
                        "CLOUDFLARE_BLOCK"}]

\* createRetryManager registers no command-specific policy
commandRetryStrategies == [k \in {} |-> defaultRetryStrategy]

\* the ErrorHandlerConfig createRetryManager builds
productionConfig ==
  [commandRetryStrategies |-> commandRetryStrategies,
   defaultRetryStrategy |-> defaultRetryStrategy]

\* an ErrorHandlerConfig whose policy for click has no retryable error
singleAttemptConfig ==
  [commandRetryStrategies |->
     [k \in {"click"} |-> [defaultRetryStrategy EXCEPT !.retryableErrors = {}]],
   defaultRetryStrategy |-> defaultRetryStrategy]

\* an ErrorHandlerConfig with the navigate policy of
\* createDefaultErrorHandlerConfig
navigateConfig ==
  [commandRetryStrategies |->
     [k \in {"navigate"} |->
        [maxRetries |-> 5, baseDelay |-> 2000, maxDelay |-> 15000,
         backoffMultiplier |-> 2,
         retryableErrors |-> {"NETWORK_ERROR", "CLOUDFLARE_BLOCK",
                              "NAVIGATION_FAILED", "TIMEOUT"}]],
   defaultRetryStrategy |-> defaultRetryStrategy]

\* mutant: the policies registered for command kinds are not looked up
getRetryStrategyDefaultOnly(command) == errorHandlerConfig.defaultRetryStrategy

\* commandRetryStrategies.get(command) || defaultRetryStrategy
getRetryStrategy(command) ==
  IF command \in DOMAIN errorHandlerConfig.commandRetryStrategies
  THEN errorHandlerConfig.commandRetryStrategies[command]
  ELSE errorHandlerConfig.defaultRetryStrategy

\* mutant: the retry budget of the policy is not looked at
(***************************************************************************)
(* ErrorHandler.calculateRetryDelay.  A backoffMultiplier is the fraction  *)
(* <<numerator, denominator>>; a delay before Math.floor is a fraction     *)
(* too, so that 500 * 1.5^3 = 1687.5 keeps its half.                       *)
(***************************************************************************)
\* the policies of createDefaultErrorHandlerConfig
retryStrategies ==
  [default  |-> [maxRetries |-> 3, baseDelay |-> 1000, maxDelay |-> 10000,
                 backoffMultiplier |-> <<2, 1>>],
   navigate |-> [maxRetries |-> 5, baseDelay |-> 2000, maxDelay |-> 15000,
                 backoffMultiplier |-> <<2, 1>>],
   click    |-> [maxRetries |-> 3, baseDelay |-> 500, maxDelay |-> 3000,
                 backoffMultiplier |-> <<3, 2>>],
   extract  |-> [maxRetries |-> 2, baseDelay |-> 1000, maxDelay |-> 5000,
                 backoffMultiplier |-> <<2, 1>>]]

RECURSIVE pow(_, _)
pow(base, exponent) ==
  IF exponent = 0 THEN 1 ELSE base * pow(base, exponent - 1)

\* Math.min(baseDelay * Math.pow(backoffMultiplier, retryCount), maxDelay)
backoffDelay(strategy, retryCount) ==
  LET n == strategy.baseDelay * pow(strategy.backoffMultiplier[1], retryCount)
      d == pow(strategy.backoffMultiplier[2], retryCount)
  IN  IF n <= strategy.maxDelay * d THEN <<n, d>>
      ELSE <<strategy.maxDelay, 1>>

\* Math.floor(delay + Math.random() * 0.1 * delay), Math.random() = r / MaxJitter
calculateRetryDelay(strategy, retryCount, r) ==
  LET delay == backoffDelay(strategy, retryCount)
  IN  (delay[1] * (10 * MaxJitter + r)) \div (delay[2] * 10 * MaxJitter)

NoCalc == [policy |-> "none", retryCount |-> 0, random |-> 0, result |-> 0,
           called |-> FALSE]

CalcInputs ==
  [policy : DOMAIN retryStrategies, retryCount : 0..MaxAttemptIndex,
   random : 0..(MaxJitter - 1), result : {0}, called : {FALSE}]

shouldRetryAlways(errorCode, retryCount, strategy) ==
  errorCode \in strategy.retryableErrors

\* mutant: the retryable set of the policy is not looked at
shouldRetryAnyError(errorCode, retryCount, strategy) ==
  IF retryCount >= strategy.maxRetries THEN FALSE
  ELSE TRUE

\* mutant: the budget test lets one more retry through (>)
shouldRetryOnceMore(errorCode, retryCount, strategy) ==
  IF retryCount > strategy.maxRetries THEN FALSE
  ELSE errorCode \in strategy.retryableErrors

shouldRetry(errorCode, retryCount, strategy) ==
  IF retryCount >= strategy.maxRetries
  THEN FALSE
  ELSE errorCode \in strategy.retryableErrors

(***************************************************************************)
(* ClientManager: a Map from client id to ClientState, kept here as the    *)
(* sequence of its values in insertion order.                              *)
(***************************************************************************)
getAllClients == clients

ClientIndex(clientId) ==
  IF \E n \in 1..Len(clients) : clients[n].id = clientId
  THEN CHOOSE n \in 1..Len(clients) : clients[n].id = clientId
  ELSE 0

hasClient(clientId) == ClientIndex(clientId) # 0

getClient(clientId) == clients[ClientIndex(clientId)]

addClient(client) ==
  IF hasClient(client.id)
  THEN [clients EXCEPT ![ClientIndex(client.id)] = client]
  ELSE Append(clients, client)

updateLastActivity(clientId) ==
  IF hasClient(clientId)
  THEN [clients EXCEPT ![ClientIndex(clientId)].lastActivity = now]
  ELSE clients

\* mutant: updateClientState creates the entry it does not find
updateHeartbeatUpserts(clientId) ==
  IF hasClient(clientId)
  THEN [clients EXCEPT ![ClientIndex(clientId)].lastHeartbeat = now,
                       ![ClientIndex(clientId)].lastActivity = now]
  ELSE Append(clients,
              [id |-> clientId, connected |-> TRUE, lastHeartbeat |-> now,
               lastActivity |-> now, requests |-> 0, windowStart |-> now])

updateHeartbeat(clientId) ==
  IF hasClient(clientId)
  THEN [clients EXCEPT ![ClientIndex(clientId)].lastHeartbeat = now,
                       ![ClientIndex(clientId)].lastActivity = now]
  ELSE clients

removeClient(clientId) ==
  SelectSeq(clients, LAMBDA c : c.id # clientId)

(***************************************************************************)
(* RetryManager: the circuit breaker table, a Map from signature to        *)
(* {failures, lastFailureTime, state}.                                     *)
(***************************************************************************)
\* `${command}_${JSON.stringify(params)}`; params is kept as its JSON text
circuitBreakerKey(command, params) == command \o "_" \o params

\* mutant: the cooldown counts as elapsed one comparison too early (>=)
isCircuitBreakerOpenEarly(table, key) ==
  IF key \notin DOMAIN table THEN FALSE
  ELSE IF table[key].state = "OPEN"
       THEN ~ (now - table[key].lastFailureTime >= circuitBreakerTimeout)
       ELSE FALSE

\* the value isCircuitBreakerOpen returns
isCircuitBreakerOpen(table, key) ==
  IF key \notin DOMAIN table THEN FALSE
  ELSE IF table[key].state = "OPEN"
       THEN ~ (now - table[key].lastFailureTime > circuitBreakerTimeout)
       ELSE FALSE

\* mutant: an elapsed cooldown leaves the breaker OPEN
afterCircuitBreakerCheckStaysOpen(table, key) == table

\* the table isCircuitBreakerOpen leaves behind
afterCircuitBreakerCheck(table, key) ==
  IF key \in DOMAIN table
     /\ table[key].state = "OPEN"
     /\ now - table[key].lastFailureTime > circuitBreakerTimeout
  THEN [table EXCEPT ![key].state = "HALF_OPEN"]
  ELSE table

\* mutant: a failure is counted for every signature that has an entry
recordFailureForAll(table, key) ==
  LET old(k) == IF k \in DOMAIN table THEN table[k]
                ELSE [failures |-> 0, lastFailureTime |-> 0,
                      state |-> "CLOSED"]
      new(k) == [failures |-> old(k).failures + 1,
                 lastFailureTime |-> now,
                 state |-> IF old(k).failures + 1 >= circuitBreakerThreshold
                           THEN "OPEN" ELSE old(k).state]
  IN  [k \in DOMAIN table \cup {key} |-> new(k)]

\* mutant: a failure of a known signature keeps the old lastFailureTime
recordFailureKeepsTime(table, key) ==
  LET old == IF key \in DOMAIN table THEN table[key]
             ELSE [failures |-> 0, lastFailureTime |-> now, state |-> "CLOSED"]
      failures == old.failures + 1
      new == [failures |-> failures,
              lastFailureTime |-> old.lastFailureTime,
              state |-> IF failures >= circuitBreakerThreshold
                        THEN "OPEN" ELSE old.state]
  IN  [k \in DOMAIN table \cup {key} |-> IF k = key THEN new ELSE table[k]]

\* mutant: the breaker opens only once the count exceeds the threshold (>)
recordFailureLate(table, key) ==
  LET old == IF key \in DOMAIN table THEN table[key]
             ELSE [failures |-> 0, lastFailureTime |-> 0, state |-> "CLOSED"]
      failures == old.failures + 1
      new == [failures |-> failures,
              lastFailureTime |-> now,
              state |-> IF failures > circuitBreakerThreshold
                        THEN "OPEN" ELSE old.state]
  IN  [k \in DOMAIN table \cup {key} |-> IF k = key THEN new ELSE table[k]]

recordFailure(table, key) ==
  LET old == IF key \in DOMAIN table THEN table[key]
             ELSE [failures |-> 0, lastFailureTime |-> 0, state |-> "CLOSED"]
      failures == old.failures + 1
      new == [failures |-> failures,
              lastFailureTime |-> now,
              state |-> IF failures >= circuitBreakerThreshold
                        THEN "OPEN" ELSE old.state]
  IN  [k \in DOMAIN table \cup {key} |-> IF k = key THEN new ELSE table[k]]

\* mutant: a success closes the breaker and keeps its failure count
resetCircuitBreakerKeepsCount(table, key) ==
  IF key \in DOMAIN table
  THEN [table EXCEPT ![key].state = "CLOSED"]
  ELSE table

\* mutant: a success of an unknown signature creates its entry
resetCircuitBreakerCreates(table, key) ==
  [k \in DOMAIN table \cup {key} |->
     IF k = key
     THEN [failures |-> 0, lastFailureTime |-> 0, state |-> "CLOSED"]
     ELSE table[k]]

resetCircuitBreaker(table, key) ==
  IF key \in DOMAIN table
  THEN [table EXCEPT ![key].failures = 0, ![key].state = "CLOSED"]
  ELSE table

\* mutant: resetAll closes every breaker and keeps its entry
resetAllCircuitBreakersInPlace(table) ==
  [k \in DOMAIN table |->
     [failures |-> 0, lastFailureTime |-> 0, state |-> "CLOSED"]]

resetAllCircuitBreakers(table) == [k \in {} |-> table[k]]

Keys == {circuitBreakerKey(k, a) : k \in Kinds \cup {UnknownKind}, a \in Args}

(***************************************************************************)
(* Server: pending commands, their timers, and the tools/call requests     *)
(* being served.  inv[i] is the activation of handleMCPProtocol /          *)
(* executeWithRetry in slot i:                                             *)
(*   pc        where the activation is suspended                           *)
(*   settled   the outcome of the promise the executor awaits              *)
(*   calls, recorded, settles, probe                                       *)
(*             history: executor calls made, failures recorded,            *)
(*             resolve/reject calls on the current promise, and whether    *)
(*             the activation's breaker check moved OPEN to HALF_OPEN      *)
(***************************************************************************)
IdleInv ==
  [pc |-> "idle", command |-> "", params |-> "", client |-> NoClient,
   retryCount |-> 0, id |-> NoId, lastError |-> NoError, outcome |-> "none",
   calls |-> 0, recorded |-> 0, settles |-> 0, probe |-> FALSE]

NoTimer == [armed |-> FALSE, id |-> NoId, deadline |-> 0]

\* `cmd_${Date.now()}_${Math.random().toString(36).substr(2, 9)}`
generateCommandId(r) == r

Remove(map, key) == [k \in DOMAIN map \ {key} |-> map[k]]

Put(map, key, value) ==
  [k \in DOMAIN map \cup {key} |-> IF k = key THEN value ELSE map[k]]

keyOf(i) == circuitBreakerKey(inv[i].command, inv[i].params)

Failures(table, key) == IF key \in DOMAIN table THEN table[key].failures ELSE 0

\* accepted command frames are counted for no connection, or for all
NotCounted == [c \in {} |-> 0]
Counted == [c \in ClientIds |-> 0]

\* new CommandQueue(): queue = [], processing = false, no processQueue call
\* suspended at its await (loops); executed is the history of the commands
\* executeCommand ran, enqueued counts enqueue calls, cleared holds the ids
\* of the commands clearQueue dropped
EmptyQueue == [queue |-> <<>>, processing |-> FALSE, loops |-> 0,
               executed |-> <<>>, enqueued |-> 0, cleared |-> {}]

\* background.js at load: ws = null, reconnectAttempts = 0, no timer set.
\*   ws         readyState of the socket in ws, "null" when there is none
\*   detached   sockets that disconnectFromMCP closed and dropped and whose
\*              close event is still to come
\*   timeouts   the setTimeout callbacks that will call connectToMCP
\*   clock      Date.now() of the browser
\*   badUrl     CONFIG.serverUrl is not a URL new WebSocket() accepts
\*   reconnects, opens, popup
\*              history: sockets created by reconnect timers since the
\*              last successful open, successful opens, popup messages
\*   userDisconnected
\*              history: the popup's last message was 'disconnect'
NoExtension == [ws |-> "null", detached |-> 0, reconnectAttempts |-> 0,
                timeouts |-> <<>>, clock |-> 0, badUrl |-> FALSE,
                reconnects |-> 0, opens |-> 0, popup |-> 0,
                userDisconnected |-> FALSE]

\* no call of the ErrorHandler from outside the retry manager
NoStrategy ==
  [maxRetries |-> 0, baseDelay |-> 0, maxDelay |-> 0, backoffMultiplier |-> 0,
   retryableErrors |-> {}]

NoContext ==
  [call |-> "none", command |-> "", retryCount |-> 0, message |-> NoError,
   errorCode |-> "none", category |-> "none", recoverable |-> FALSE,
   strategy |-> NoStrategy, shouldRetry |-> FALSE, called |-> FALSE]

ContextInputs ==
  [call : {"handleError"}, command : Kinds, retryCount : 0..MaxAttemptIndex,
   message : Messages \cup ExtensionMessages, errorCode : {"none"},
   category : {"none"}, recoverable : {FALSE}, strategy : {NoStrategy},
   shouldRetry : {FALSE}, called : {FALSE}]
  \cup
  [call : {"categorizeError"}, command : {""}, retryCount : {0},
   message : {NoError}, errorCode : ErrorCodes,
   category : {"none"}, recoverable : {FALSE}, strategy : {NoStrategy},
   shouldRetry : {FALSE}, called : {FALSE}]

\* the command kinds getRetryStrategy is asked about
StrategyInputs ==
  [call : {"getRetryStrategy"}, command : Kinds \cup {"extract", UnknownKind},
   retryCount : {0}, message : {NoError}, errorCode : {"none"},
   category : {"none"}, recoverable : {FALSE}, strategy : {NoStrategy},
   shouldRetry : {FALSE}, called : {FALSE}]

\* A promise that has settled resumes its awaiting executeWithRetry as a
\* microtask: the event loop runs it before the next message, timer or
\* request handler.
microtasksDrained == \A i \in Slots : inv[i].pc \notin {"resolved", "rejected"}

Init ==
  /\ now = 0
  /\ conns = [c \in ClientIds |-> "none"]
  /\ clients = <<>>
  /\ pendingCommands = [k \in {} |-> 0]
  /\ timers = [i \in Slots |-> NoTimer]
  /\ circuitBreakerState = [k \in {} |-> 0]
  /\ inv = [i \in Slots |-> IdleInv]
  /\ lastReply = [c \in ClientIds |-> "none"]
  /\ executedCommand = NoCommand
  /\ accepted = NotCounted
  /\ calc = NoCalc
  /\ errorHandlerConfig = productionConfig
  /\ commandQueue = EmptyQueue
  /\ ext = NoExtension
  /\ errorContext = NoContext

\* the same server, with the command frames it accepts counted
InitWindow ==
  /\ now = 0
  /\ conns = [c \in ClientIds |-> "none"]
  /\ clients = <<>>
  /\ pendingCommands = [k \in {} |-> 0]
  /\ timers = [i \in Slots |-> NoTimer]
  /\ circuitBreakerState = [k \in {} |-> 0]
  /\ inv = [i \in Slots |-> IdleInv]
  /\ lastReply = [c \in ClientIds |-> "none"]
  /\ executedCommand = NoCommand
  /\ accepted = Counted
  /\ calc = NoCalc
  /\ errorHandlerConfig = productionConfig
  /\ commandQueue = EmptyQueue
  /\ ext = NoExtension
  /\ errorContext = NoContext

\* a server whose ErrorHandler is given singleAttemptConfig
InitSingleAttempt ==
  /\ now = 0
  /\ conns = [c \in ClientIds |-> "none"]
  /\ clients = <<>>
  /\ pendingCommands = [k \in {} |-> 0]
  /\ timers = [i \in Slots |-> NoTimer]
  /\ circuitBreakerState = [k \in {} |-> 0]
  /\ inv = [i \in Slots |-> IdleInv]
  /\ lastReply = [c \in ClientIds |-> "none"]
  /\ executedCommand = NoCommand
  /\ accepted = NotCounted
  /\ calc = NoCalc
  /\ errorHandlerConfig = singleAttemptConfig
  /\ commandQueue = EmptyQueue
  /\ ext = NoExtension
  /\ errorContext = NoContext

\* a direct caller of handleError (an error message) or of categorizeError
\* (an ErrorCode): the inputs are drawn at the start
InitClassify ==
  /\ now = 0
  /\ conns = [c \in ClientIds |-> "none"]
  /\ clients = <<>>
  /\ pendingCommands = [k \in {} |-> 0]
  /\ timers = [i \in Slots |-> NoTimer]
  /\ circuitBreakerState = [k \in {} |-> 0]
  /\ inv = [i \in Slots |-> IdleInv]
  /\ lastReply = [c \in ClientIds |-> "none"]
  /\ executedCommand = NoCommand
  /\ accepted = NotCounted
  /\ calc = NoCalc
  /\ errorHandlerConfig = productionConfig
  /\ commandQueue = EmptyQueue
  /\ ext = NoExtension
  /\ errorContext \in ContextInputs

\* handleError: extractErrorCode, then createErrorContext and shouldRetry
callHandleError ==
  /\ errorContext.call = "handleError"
  /\ ~ errorContext.called
  /\ LET errorCode == extractErrorCode(errorContext.message)
     IN  errorContext' =
           [errorContext EXCEPT
              !.errorCode = errorCode,
              !.category = categorizeError(errorCode),
              !.recoverable = isRecoverable(errorCode),
              !.strategy = getRetryStrategy(errorContext.command),
              !.shouldRetry = shouldRetry(errorCode, errorContext.retryCount,
                                getRetryStrategy(errorContext.command)),
              !.called = TRUE]
  /\ UNCHANGED <<now, conns, clients, pendingCommands, timers,
                 circuitBreakerState, inv, lastReply, executedCommand,
                 accepted, calc, errorHandlerConfig, commandQueue, ext>>

\* categorizeError and isRecoverable called with an ErrorCode
callCategorizeError ==
  /\ errorContext.call = "categorizeError"
  /\ ~ errorContext.called
  /\ errorContext' =
       [errorContext EXCEPT
          !.category = categorizeError(errorContext.errorCode),
          !.recoverable = isRecoverable(errorContext.errorCode),
          !.called = TRUE]
  /\ UNCHANGED <<now, conns, clients, pendingCommands, timers,
                 circuitBreakerState, inv, lastReply, executedCommand,
                 accepted, calc, errorHandlerConfig, commandQueue, ext>>

\* getRetryStrategy called with a command kind
callGetRetryStrategy ==
  /\ errorContext.call = "getRetryStrategy"
  /\ ~ errorContext.called
  /\ errorContext' =
       [errorContext EXCEPT
          !.strategy = getRetryStrategy(errorContext.command),
          !.called = TRUE]
  /\ UNCHANGED <<now, conns, clients, pendingCommands, timers,
                 circuitBreakerState, inv, lastReply, executedCommand,
                 accepted, calc, errorHandlerConfig, commandQueue, ext>>

\* an ErrorHandler constructed with one of three configurations and called
\* directly: the configuration and the inputs are drawn at the start
InitPolicies ==
  /\ now = 0
  /\ conns = [c \in ClientIds |-> "none"]
  /\ clients = <<>>
  /\ pendingCommands = [k \in {} |-> 0]
  /\ timers = [i \in Slots |-> NoTimer]
  /\ circuitBreakerState = [k \in {} |-> 0]
  /\ inv = [i \in Slots |-> IdleInv]
  /\ lastReply = [c \in ClientIds |-> "none"]
  /\ executedCommand = NoCommand
  /\ accepted = NotCounted
  /\ calc = NoCalc
  /\ errorHandlerConfig \in
       {productionConfig, singleAttemptConfig, navigateConfig}
  /\ commandQueue = EmptyQueue
  /\ ext = NoExtension
  /\ errorContext \in ContextInputs \cup StrategyInputs

\* a direct caller of calculateRetryDelay: the inputs are drawn at the start
InitDelay ==
  /\ now = 0
  /\ conns = [c \in ClientIds |-> "none"]
  /\ clients = <<>>
  /\ pendingCommands = [k \in {} |-> 0]
  /\ timers = [i \in Slots |-> NoTimer]
  /\ circuitBreakerState = [k \in {} |-> 0]
  /\ inv = [i \in Slots |-> IdleInv]
  /\ lastReply = [c \in ClientIds |-> "none"]
  /\ executedCommand = NoCommand
  /\ accepted = NotCounted
  /\ calc \in CalcInputs
  /\ errorHandlerConfig = productionConfig
  /\ commandQueue = EmptyQueue
  /\ ext = NoExtension
  /\ errorContext = NoContext

callCalculateRetryDelay ==
  /\ calc.policy \in DOMAIN retryStrategies
  /\ ~ calc.called
  /\ calc' = [calc EXCEPT
       !.result = calculateRetryDelay(retryStrategies[calc.policy],
                                      calc.retryCount, calc.random),
       !.called = TRUE]
  /\ UNCHANGED <<now, conns, clients, pendingCommands, timers,
                 circuitBreakerState, inv, lastReply, executedCommand,
                 accepted, errorHandlerConfig, components>>

(***************************************************************************)
(* Time and connections.                                                   *)
(***************************************************************************)
Tick(limit) ==
  /\ UNCHANGED <<lastReply, executedCommand, calc, errorHandlerConfig, components>>
  /\ accepted' = [c \in DOMAIN accepted |-> 0]
  /\ microtasksDrained
  /\ now + TickMs <= limit * TickMs
  /\ now' = now + TickMs
  /\ UNCHANGED <<conns, clients, pendingCommands, timers, circuitBreakerState,
                 inv>>

handleConnection(c) ==
  /\ lastReply' = [lastReply EXCEPT ![c] = "welcome"]
  /\ UNCHANGED <<executedCommand, accepted, calc, errorHandlerConfig, components>>
  /\ microtasksDrained
  /\ conns[c] = "none"
  /\ conns' = [conns EXCEPT ![c] = "open"]
  /\ UNCHANGED <<now, clients, pendingCommands, timers, circuitBreakerState,
                 inv>>

\* mutant: the handshake is refused and no session is registered
handleAuthRefused(c) ==
  /\ lastReply' = [lastReply EXCEPT ![c] = "AUTHENTICATION_FAILED"]
  /\ UNCHANGED <<executedCommand, accepted, calc, errorHandlerConfig, components>>
  /\ microtasksDrained
  /\ conns[c] = "open"
  /\ UNCHANGED <<now, conns, clients, pendingCommands, timers,
                 circuitBreakerState, inv>>

\* the ClientState handleAuth builds (rateLimit kept as two fields)
clientState(c) ==
  [id |-> c, connected |-> TRUE, lastHeartbeat |-> now, lastActivity |-> now,
   requests |-> 0, windowStart |-> now]

handleAuth(c) ==
  /\ lastReply' = [lastReply EXCEPT ![c] = "auth_success"]
  /\ UNCHANGED <<executedCommand, accepted, calc, errorHandlerConfig, components>>
  /\ microtasksDrained
  /\ conns[c] = "open"
  /\ clients' = addClient(clientState(c))
  /\ UNCHANGED <<now, conns, pendingCommands, timers, circuitBreakerState,
                 inv>>

handleHeartbeat(c) ==
  /\ UNCHANGED <<lastReply, executedCommand, accepted, calc, errorHandlerConfig, components>>
  /\ microtasksDrained
  /\ conns[c] = "open"
  /\ clients' = updateHeartbeat(c)
  /\ UNCHANGED <<now, conns, pendingCommands, timers, circuitBreakerState,
                 inv>>

handleDisconnection(c) ==
  /\ UNCHANGED <<lastReply, executedCommand, accepted, calc, errorHandlerConfig, components>>
  /\ microtasksDrained
  /\ conns[c] = "open"
  /\ conns' = [conns EXCEPT ![c] = "closed"]
  /\ clients' = removeClient(c)
  /\ UNCHANGED <<now, pendingCommands, timers, circuitBreakerState, inv>>

\* mutant: a heartbeat exactly staleTimeout old counts as stale (>=)
isStaleAtLimit(client) == now - client.lastHeartbeat >= staleTimeout

isStale(client) == now - client.lastHeartbeat > staleTimeout

cleanupStaleConnections ==
  /\ UNCHANGED <<lastReply, executedCommand, accepted, calc, errorHandlerConfig, components>>
  /\ microtasksDrained
  /\ now > 0
  /\ clients' = SelectSeq(clients, LAMBDA c : ~ isStale(c))
  /\ UNCHANGED <<now, conns, pendingCommands, timers, circuitBreakerState,
                 inv>>

(***************************************************************************)
(* WebSocket command frames: handleCommand, validateCommand,               *)
(* checkRateLimit and CommandQueue.                                        *)
(***************************************************************************)
validTypes ==
  {"navigate", "click", "extract", "extract_data", "extract_table",
   "extract_links", "extract_images", "extract_text", "extract_attribute",
   "type", "select", "check", "hover", "scroll", "dragDrop", "upload",
   "evaluate", "reload", "goBack", "goForward", "newTab", "closeTab",
   "switchTab", "getTabs", "getCookies", "setCookie", "deleteCookie",
   "clearCookies", "getLocalStorage", "setLocalStorage", "getSessionStorage",
   "setSessionStorage", "clearStorage", "wait", "waitForSelector",
   "waitForText", "waitForNavigation", "waitForNetworkIdle", "analyze",
   "screenshot"}

\* the values message.command and message.params take in a frame, each
\* named by its JavaScript shape
Absent == "undefined"
FrameCommands == {"navigate", UnknownKind, Absent}
FrameParams == {"object", "array", "string", "zero", Absent}

Falsy == {"zero", Absent}

typeof(value) ==
  CASE value \in {"object", "array"} -> "object"
    [] value = "string" -> "string"
    [] value = "zero" -> "number"
    [] OTHER -> "undefined"

\* the MCPCommand handleCommand builds: type: message.command || message.type
\* (message.type is 'command' here), params: message.params || {}
MCPCommand(c, command, params) ==
  [type |-> IF command \in Falsy THEN "command" ELSE command,
   params |-> IF params \in Falsy THEN "object" ELSE params,
   clientId |-> c]

\* mutant: the type of params is not looked at
validateCommandAnyParams(command) ==
  IF command.type \notin validTypes THEN FALSE
  ELSE TRUE

validateCommand(command) ==
  IF command.type \notin validTypes THEN FALSE
  ELSE IF command.params \in Falsy \/ typeof(command.params) # "object" THEN FALSE
  ELSE TRUE

\* mutant: the limit test lets one more request through (>)
checkRateLimitOneMore(clientId) ==
  IF ~ hasClient(clientId) THEN [ok |-> FALSE, clients |-> clients]
  ELSE LET n == ClientIndex(clientId)
           reset == IF now - clients[n].windowStart > windowMs
                    THEN [clients EXCEPT ![n].requests = 0,
                                         ![n].windowStart = now]
                    ELSE clients
       IN  IF reset[n].requests > maxRequests
           THEN [ok |-> FALSE, clients |-> reset]
           ELSE [ok |-> TRUE,
                 clients |-> [reset EXCEPT ![n].requests = @ + 1]]

\* mutant: a client without a registry entry is let through
checkRateLimitUnregistered(clientId) ==
  IF ~ hasClient(clientId) THEN [ok |-> TRUE, clients |-> clients]
  ELSE LET n == ClientIndex(clientId)
           reset == IF now - clients[n].windowStart > windowMs
                    THEN [clients EXCEPT ![n].requests = 0,
                                         ![n].windowStart = now]
                    ELSE clients
       IN  IF reset[n].requests >= maxRequests
           THEN [ok |-> FALSE, clients |-> reset]
           ELSE [ok |-> TRUE,
                 clients |-> [reset EXCEPT ![n].requests = @ + 1]]

\* checkRateLimit: the boolean it returns and the registry it leaves
checkRateLimit(clientId) ==
  IF ~ hasClient(clientId) THEN [ok |-> FALSE, clients |-> clients]
  ELSE LET n == ClientIndex(clientId)
           reset == IF now - clients[n].windowStart > windowMs
                    THEN [clients EXCEPT ![n].requests = 0,
                                         ![n].windowStart = now]
                    ELSE clients
       IN  IF reset[n].requests >= maxRequests
           THEN [ok |-> FALSE, clients |-> reset]
           ELSE [ok |-> TRUE,
                 clients |-> [reset EXCEPT ![n].requests = @ + 1]]

\* what handling one command frame leaves: the frame sent back (if any),
\* the registry and the command CommandQueue ran last.  enqueue pushes the
\* command and processQueue shifts and runs it in the same turn.
handleCommandResult(c, command, params) ==
  LET cmd == MCPCommand(c, command, params)
      limit == checkRateLimit(c)
  IN  IF ~ validateCommand(cmd)
      THEN [reply |-> "INVALID_PARAMS", clients |-> clients,
            executed |-> executedCommand, enqueued |-> FALSE]
      ELSE IF ~ limit.ok
      THEN [reply |-> "RATE_LIMIT_EXCEEDED", clients |-> limit.clients,
            executed |-> executedCommand, enqueued |-> FALSE]
      ELSE [reply |-> lastReply[c], clients |-> limit.clients,
            executed |-> cmd, enqueued |-> TRUE]

\* one more frame of connection c accepted at this instant, for the
\* connections whose frames are counted; the count stops one past the limit
count(acc, c) ==
  IF c \in DOMAIN acc /\ acc[c] <= maxRequests
  THEN [acc EXCEPT ![c] = @ + 1]
  ELSE acc

handleCommand(c, command, params) ==
  /\ microtasksDrained
  /\ conns[c] = "open"
  /\ LET result == handleCommandResult(c, command, params)
     IN  /\ lastReply' = [lastReply EXCEPT ![c] = result.reply]
         /\ clients' = result.clients
         /\ executedCommand' = result.executed
         /\ accepted' = IF result.enqueued THEN count(accepted, c)
                        ELSE accepted
  /\ UNCHANGED <<now, conns, pendingCommands, timers, circuitBreakerState,
                 inv, calc, errorHandlerConfig, components>>

(***************************************************************************)
(* CommandQueue called directly.  A command is its enqueue number and its  *)
(* priority.  processQueue runs up to its await inside the enqueue call    *)
(* that starts it and goes on, one command per turn, as a continuation.    *)
(***************************************************************************)
Priorities == {"high", "normal", "low", Absent}

\* mutant: a command without priority counts as low
getPriorityValueMissingLow(priority) ==
  CASE priority = "high" -> 0
    [] priority = "normal" -> 1
    [] OTHER -> 2

getPriorityValue(priority) ==
  CASE priority = "high" -> 0
    [] priority = "normal" -> 1
    [] priority = "low" -> 2
    [] OTHER -> 1

\* Array.prototype.sort with the comparator of enqueue; the sort is stable
RECURSIVE sort(_)
sort(q) ==
  IF Len(q) <= 1 THEN q
  ELSE LET front == sort(SubSeq(q, 1, Len(q) - 1))
           last == q[Len(q)]
           keep == {n \in 1..Len(front) :
                      getPriorityValue(front[n].priority)
                        <= getPriorityValue(last.priority)}
           at == IF keep = {} THEN 0
                 ELSE CHOOSE n \in keep : \A k \in keep : k <= n
       IN  SubSeq(front, 1, at) \o <<last>> \o SubSeq(front, at + 1, Len(front))

\* processQueue from the top of its loop to the next await or to its end
processQueueFrom(q, executed) ==
  IF Len(q) > 0
  THEN [queue |-> Tail(q), processing |-> TRUE,
        executed |-> Append(executed, Head(q))]
  ELSE [queue |-> q, processing |-> FALSE, executed |-> executed]

\* mutant: enqueue calls processQueue whether or not a loop is running
startsLoopAlways(q) == TRUE

\* enqueue: if (!this.processing) this.processQueue()
startsLoop(q) == ~ q.processing

\* a processQueue call that returned processing = TRUE is suspended at its
\* await; one that returned FALSE has run to its end
suspended(next) == IF next.processing THEN 1 ELSE 0

enqueue(priority) ==
  /\ commandQueue.enqueued < MaxQueued
  /\ LET command == [id |-> commandQueue.enqueued + 1, priority |-> priority]
         sorted == sort(Append(commandQueue.queue, command))
     IN  IF startsLoop(commandQueue)
         THEN LET next == processQueueFrom(sorted, commandQueue.executed)
              IN  commandQueue' =
                    [commandQueue EXCEPT
                       !.queue = next.queue,
                       !.processing = next.processing,
                       !.loops = @ + suspended(next),
                       !.executed = next.executed,
                       !.enqueued = @ + 1]
         ELSE commandQueue' = [commandQueue EXCEPT !.queue = sorted,
                                                   !.enqueued = @ + 1]
  /\ UNCHANGED <<server, ext, errorContext>>

\* the continuation of a processQueue call after await
\* executeCommand(command)
processQueue ==
  /\ commandQueue.loops > 0
  /\ LET next == processQueueFrom(commandQueue.queue, commandQueue.executed)
     IN  commandQueue' = [commandQueue EXCEPT
                            !.queue = next.queue,
                            !.processing = next.processing,
                            !.loops = @ - 1 + suspended(next),
                            !.executed = next.executed]
  /\ UNCHANGED <<server, ext, errorContext>>

clearQueue ==
  /\ commandQueue.queue # <<>>
  /\ commandQueue' =
       [commandQueue EXCEPT
          !.queue = <<>>,
          !.cleared = @ \cup {commandQueue.queue[n].id :
                                n \in 1..Len(commandQueue.queue)}]
  /\ UNCHANGED <<server, ext, errorContext>>

(***************************************************************************)
(* The extension's background worker: connectToMCP, the socket's open and  *)
(* close events, scheduleReconnect and the popup's messages.               *)
(***************************************************************************)
\* mutant: every reconnect is scheduled after reconnectDelay
scheduleReconnectFixedDelay(e) ==
  IF e.reconnectAttempts >= maxReconnectAttempts THEN e
  ELSE [e EXCEPT
          !.reconnectAttempts = @ + 1,
          !.timeouts = Append(@, [kind |-> "reconnect",
                                  delay |-> reconnectDelay,
                                  due |-> e.clock + reconnectDelay])]

scheduleReconnect(e) ==
  IF e.reconnectAttempts >= maxReconnectAttempts THEN e
  ELSE LET delay == reconnectDelay * (e.reconnectAttempts + 1)
       IN  [e EXCEPT
              !.reconnectAttempts = @ + 1,
              !.timeouts = Append(@, [kind |-> "reconnect", delay |-> delay,
                                      due |-> e.clock + delay])]

\* connectToMCP; new WebSocket(url) throws when the configured url is bad
\* a socket that is still CLOSING when ws is overwritten fires its close
\* event later, like one that disconnectFromMCP dropped
connectToMCP(e) ==
  IF e.ws \in {"OPEN", "CONNECTING"} THEN e
  ELSE IF e.badUrl THEN scheduleReconnect(e)
  ELSE [e EXCEPT !.ws = "CONNECTING",
                 !.detached = IF e.ws = "CLOSING" THEN @ + 1 ELSE @]

\* ws.onopen
handleConnectionOpen ==
  /\ ext.ws = "CONNECTING"
  /\ ext.opens < MaxOpens
  /\ ext' = [ext EXCEPT !.ws = "OPEN", !.reconnectAttempts = 0,
                        !.reconnects = 0, !.opens = @ + 1]
  /\ UNCHANGED <<server, commandQueue, errorContext>>

\* ws.onclose of the socket in ws: the connection failed, the server went
\* away, or the popup asked to disconnect (ws.close())
handleConnectionClose ==
  /\ ext.ws \in {"CONNECTING", "OPEN", "CLOSING"}
  /\ ext' = scheduleReconnect([ext EXCEPT !.ws = "CLOSED"])
  /\ UNCHANGED <<server, commandQueue, errorContext>>

\* onclose of a socket that disconnectFromMCP closed and dropped
handleDetachedClose ==
  /\ ext.detached > 0
  /\ ext' = scheduleReconnect([ext EXCEPT !.detached = @ - 1])
  /\ UNCHANGED <<server, commandQueue, errorContext>>

\* the popup's 'connect' message (and loadConfig at startup)
popupConnect ==
  /\ ext.popup < MaxPopup
  /\ ext' = connectToMCP([ext EXCEPT !.popup = @ + 1,
                                      !.userDisconnected = FALSE])
  /\ UNCHANGED <<server, commandQueue, errorContext>>

\* the popup's 'disconnect' message: if (ws) ws.close().  close() starts
\* the closing handshake of a socket that is connecting or open and does
\* nothing to one that is closing or closed.
popupDisconnect ==
  /\ ext.popup < MaxPopup
  /\ ext' = [ext EXCEPT
               !.popup = @ + 1,
               !.userDisconnected = TRUE,
               !.ws = IF @ \in {"CONNECTING", "OPEN"} THEN "CLOSING" ELSE @]
  /\ UNCHANGED <<server, commandQueue, errorContext>>

\* the popup's 'updateConfig' message: handleConfigUpdate, which calls
\* disconnectFromMCP and sets a timer for connectToMCP when connected
handleConfigUpdate(bad) ==
  /\ ext.popup < MaxPopup
  /\ ext' = IF ext.ws = "OPEN"
            THEN [ext EXCEPT
                    !.popup = @ + 1,
                    !.userDisconnected = FALSE,
                    !.badUrl = bad,
                    !.ws = "null",
                    !.detached = @ + 1,
                    !.reconnectAttempts = 0,
                    !.timeouts = Append(@, [kind |-> "config",
                                            delay |-> configReconnectDelay,
                                            due |-> ext.clock
                                                    + configReconnectDelay])]
            ELSE [ext EXCEPT !.popup = @ + 1, !.userDisconnected = FALSE,
                             !.badUrl = bad]
  /\ UNCHANGED <<server, commandQueue, errorContext>>

\* positions in the list of pending setTimeout callbacks
TimeoutIndex == 1..(maxReconnectAttempts + MaxPopup)

RemoveAt(seq, n) == SubSeq(seq, 1, n - 1) \o SubSeq(seq, n + 1, Len(seq))

\* a setTimeout callback runs: connectToMCP.  Timers run in the order they
\* come due.
reconnectTimer(n) ==
  /\ n \in 1..Len(ext.timeouts)
  /\ ext.timeouts[n].due <= ext.clock
  /\ \A k \in 1..Len(ext.timeouts) :
       \/ ext.timeouts[n].due < ext.timeouts[k].due
       \/ ext.timeouts[n].due = ext.timeouts[k].due /\ n <= k
  /\ LET e == [ext EXCEPT !.timeouts = RemoveAt(@, n)]
         attempt == /\ ext.timeouts[n].kind = "reconnect"
                    /\ e.ws \notin {"OPEN", "CONNECTING"}
     IN  ext' = connectToMCP([e EXCEPT !.reconnects =
                                IF attempt THEN @ + 1 ELSE @])
  /\ UNCHANGED <<server, commandQueue, errorContext>>

\* time passes up to the moment the next timer comes due
advanceClock ==
  /\ ext.timeouts # <<>>
  /\ \A n \in 1..Len(ext.timeouts) : ext.timeouts[n].due > ext.clock
  /\ \E n \in 1..Len(ext.timeouts) :
       /\ \A k \in 1..Len(ext.timeouts) :
            ext.timeouts[n].due <= ext.timeouts[k].due
       /\ ext' = [ext EXCEPT !.clock = ext.timeouts[n].due]
  /\ UNCHANGED <<server, commandQueue, errorContext>>

(***************************************************************************)
(* tools/call: handleMCPProtocol, executeWithRetry and the executor.       *)
(***************************************************************************)
\* mutant: the executor registers the command without arming its timer
executorNoTimer(i, r, rec) ==
  LET id == generateCommandId(r)
  IN  /\ pendingCommands' = Put(pendingCommands, id, i)
      /\ timers' = timers
      /\ inv' = [inv EXCEPT ![i] = [rec EXCEPT !.pc = "await", !.id = id,
                                               !.calls = @ + 1,
                                               !.settles = 0]]

\* the executor up to its await: a fresh id, the promise, its timer, the
\* pending entry and the command frame
executor(i, r, rec) ==
  LET id == generateCommandId(r)
  IN  /\ pendingCommands' = Put(pendingCommands, id, i)
      /\ timers' = [timers EXCEPT ![i] = [armed |-> TRUE, id |-> id,
                                          deadline |-> now + commandTimeout]]
      /\ inv' = [inv EXCEPT ![i] = [rec EXCEPT !.pc = "await", !.id = id,
                                               !.calls = @ + 1,
                                               !.settles = 0]]

\* resolve (ok) or reject (not ok) of the promise the activation awaits;
\* a promise that is already settled stays as it is
settle(rec, ok, message) ==
  IF rec.pc = "await"
  THEN [rec EXCEPT !.pc = IF ok THEN "resolved" ELSE "rejected",
                   !.id = NoId,
                   !.lastError = IF ok THEN @ ELSE message,
                   !.settles = @ + 1]
  ELSE [rec EXCEPT !.settles = @ + 1]

\* mutant: the reply handler leaves the timer of the entry armed
clearTimeoutSkipped(t, j) == t

clearTimeout(t, j) == [t EXCEPT ![j] = NoTimer]

FreeSlot(S) == CHOOSE i \in S :
                 /\ inv[i].pc = "idle"
                 /\ \A j \in S : inv[j].pc = "idle" => i <= j

toolsCall(S, cap, command, params, r) ==
  /\ UNCHANGED <<lastReply, executedCommand, accepted, calc, errorHandlerConfig, components>>
  /\ microtasksDrained
  /\ Failures(circuitBreakerState, circuitBreakerKey(command, params)) < cap
  /\ \E i \in S : inv[i].pc = "idle"
  /\ LET i == FreeSlot(S)
         key == circuitBreakerKey(command, params)
         rec == [IdleInv EXCEPT !.command = command, !.params = params]
     IN  IF Len(getAllClients) = 0
         THEN /\ inv' = [inv EXCEPT ![i] = [rec EXCEPT !.pc = "done",
                                                    !.outcome = "no_clients"]]
              /\ UNCHANGED <<pendingCommands, timers, circuitBreakerState>>
         ELSE IF isCircuitBreakerOpen(circuitBreakerState, key)
         THEN /\ inv' = [inv EXCEPT ![i] =
                           [rec EXCEPT !.pc = "done",
                                       !.client = getAllClients[1].id,
                                       !.outcome = "circuit_open"]]
              /\ circuitBreakerState' =
                   afterCircuitBreakerCheck(circuitBreakerState, key)
              /\ UNCHANGED <<pendingCommands, timers>>
         ELSE /\ circuitBreakerState' =
                   afterCircuitBreakerCheck(circuitBreakerState, key)
              /\ executor(i, r,
                   [rec EXCEPT !.client = getAllClients[1].id,
                               !.probe = circuitBreakerState' # circuitBreakerState])
  /\ UNCHANGED <<now, conns, clients>>

handleResponse(c, id, success, message) ==
  /\ UNCHANGED <<lastReply, executedCommand, accepted, calc, errorHandlerConfig, components>>
  /\ microtasksDrained
  /\ conns[c] = "open"
  /\ clients' = updateLastActivity(c)
  /\ IF id \in DOMAIN pendingCommands
     THEN LET j == pendingCommands[id]
          IN  /\ timers' = clearTimeout(timers, j)
              /\ pendingCommands' = Remove(pendingCommands, id)
              /\ inv' = [inv EXCEPT ![j] = settle(inv[j], success, message)]
     ELSE UNCHANGED <<pendingCommands, timers, inv>>
  /\ UNCHANGED <<now, conns, circuitBreakerState>>

\* mutant: the timeout rejects the promise and leaves the pending entry
commandTimerLeavesEntry(i) ==
  /\ UNCHANGED <<lastReply, executedCommand, accepted, calc, errorHandlerConfig, components>>
  /\ microtasksDrained
  /\ timers[i].armed
  /\ now >= timers[i].deadline
  /\ timers' = [timers EXCEPT ![i] = NoTimer]
  /\ inv' = [inv EXCEPT ![i] = settle(inv[i], FALSE, TimeoutMessage)]
  /\ UNCHANGED <<now, conns, clients, circuitBreakerState, pendingCommands>>

commandTimer(i) ==
  /\ UNCHANGED <<lastReply, executedCommand, accepted, calc, errorHandlerConfig, components>>
  /\ microtasksDrained
  /\ timers[i].armed
  /\ now >= timers[i].deadline
  /\ pendingCommands' = Remove(pendingCommands, timers[i].id)
  /\ timers' = [timers EXCEPT ![i] = NoTimer]
  /\ inv' = [inv EXCEPT ![i] = settle(inv[i], FALSE, TimeoutMessage)]
  /\ UNCHANGED <<now, conns, clients, circuitBreakerState>>

\* mutant: recordFailure is called for every failed attempt
executeWithRetryEveryAttempt(i) ==
  /\ UNCHANGED <<lastReply, executedCommand, accepted, calc, errorHandlerConfig, components>>
  /\ inv[i].pc \in {"resolved", "rejected"}
  /\ LET key == keyOf(i)
         errorCode == extractErrorCode(inv[i].lastError)
         strategy == getRetryStrategy(inv[i].command)
     IN  IF inv[i].pc = "resolved"
         THEN /\ circuitBreakerState' =
                   resetCircuitBreaker(circuitBreakerState, key)
              /\ inv' = [inv EXCEPT ![i].pc = "done",
                                    ![i].outcome = "success"]
         ELSE /\ circuitBreakerState' =
                   recordFailure(circuitBreakerState, key)
              /\ IF shouldRetry(errorCode, inv[i].retryCount, strategy)
                 THEN inv' = [inv EXCEPT ![i].pc = "sleep",
                                         ![i].recorded = @ + 1]
                 ELSE inv' = [inv EXCEPT ![i].pc = "done",
                                         ![i].outcome = "error",
                                         ![i].recorded = @ + 1]
  /\ UNCHANGED <<now, conns, clients, pendingCommands, timers>>

\* executeWithRetry after the executor's promise has settled
executeWithRetry(i) ==
  /\ UNCHANGED <<lastReply, executedCommand, accepted, calc, errorHandlerConfig, components>>
  /\ inv[i].pc \in {"resolved", "rejected"}
  /\ LET key == keyOf(i)
         errorCode == extractErrorCode(inv[i].lastError)
         strategy == getRetryStrategy(inv[i].command)
     IN  IF inv[i].pc = "resolved"
         THEN /\ circuitBreakerState' =
                   resetCircuitBreaker(circuitBreakerState, key)
              /\ inv' = [inv EXCEPT ![i].pc = "done",
                                    ![i].outcome = "success"]
         ELSE IF shouldRetry(errorCode, inv[i].retryCount, strategy)
         THEN /\ inv' = [inv EXCEPT ![i].pc = "sleep"]
              /\ UNCHANGED circuitBreakerState
         ELSE /\ circuitBreakerState' =
                   recordFailure(circuitBreakerState, key)
              /\ inv' = [inv EXCEPT
                   ![i].pc = "done",
                   ![i].outcome = "error",
                   ![i].recorded = @ + Failures(circuitBreakerState', key)
                                     - Failures(circuitBreakerState, key)]
  /\ UNCHANGED <<now, conns, clients, pendingCommands, timers>>

\* the backoff sleep ends: retryCount++ and the next attempt
retryTimer(i, r) ==
  /\ UNCHANGED <<lastReply, executedCommand, accepted, calc, errorHandlerConfig, components>>
  /\ microtasksDrained
  /\ inv[i].pc = "sleep"
  /\ executor(i, r, [inv[i] EXCEPT !.retryCount = @ + 1])
  /\ UNCHANGED <<now, conns, clients, circuitBreakerState>>

\* handleMCPProtocol hands the result or the error to the HTTP caller
respond(i) ==
  /\ UNCHANGED <<lastReply, executedCommand, accepted, calc, errorHandlerConfig, components>>
  /\ microtasksDrained
  /\ inv[i].pc = "done"
  /\ inv' = [inv EXCEPT ![i] = IdleInv]
  /\ UNCHANGED <<now, conns, clients, pendingCommands, timers,
                 circuitBreakerState>>

\* what executeWithRetry throws when it gives up: throw lastError
thrownError(i) == [message |-> inv[i].lastError]

\* the JSON-RPC error handleMCPProtocol returns for it
errorReply(i) ==
  [code |-> -32603, message |-> "Command failed: " \o thrownError(i).message]

adminResetAll ==
  /\ UNCHANGED <<lastReply, executedCommand, accepted, calc, errorHandlerConfig, components>>
  /\ microtasksDrained
  /\ DOMAIN circuitBreakerState # {}
  /\ circuitBreakerState' = resetAllCircuitBreakers(circuitBreakerState)
  /\ UNCHANGED <<now, conns, clients, pendingCommands, timers, inv>>

(***************************************************************************)
(* Specifications.  Each fixes the environment: the connections that open, *)
(* the tools called, the errors the agent reports and how many tools/call  *)
(* requests are served at the same time.                                   *)
(***************************************************************************)
Connections(C) ==
  \/ \E c \in C : handleConnection(c)
  \/ \E c \in C : handleAuth(c)

Departures(C) ==
  \/ \E c \in C : handleHeartbeat(c)
  \/ \E c \in C : handleDisconnection(c)
  \/ cleanupStaleConnections

Requests(S, cap, C, K, M) ==
  \/ \E command \in K, params \in Args, r \in Rand :
       toolsCall(S, cap, command, params, r)
  \/ \E c \in C, id \in Rand : handleResponse(c, id, TRUE, NoError)
  \/ \E c \in C, id \in Rand, m \in M : handleResponse(c, id, FALSE, m)
  \/ \E i \in S : commandTimer(i)
  \/ \E i \in S : executeWithRetry(i)
  \/ \E i \in S, r \in Rand : retryTimer(i, r)
  \/ \E i \in S : respond(i)

\* one request at a time against one agent; every error message
Next ==
  \/ Tick(MaxTicks)
  \/ Connections({"c1"})
  \/ Requests({1}, MaxFailures, {"c1"}, {"navigate"}, AgentMessages)
  \/ adminResetAll

Spec == Init /\ [][Next]_vars

\* two requests at a time against one agent
NextConcurrent ==
  \/ Tick(MaxTicks)
  \/ Connections({"c1"})
  \/ Requests(Slots, MaxFailures, {"c1"}, {"navigate"}, {"Invalid parameters"})
  \/ adminResetAll

SpecConcurrent == Init /\ [][NextConcurrent]_vars

\* one request at a time for two tools, click under a policy without
\* retryable errors; the agent reports a network error or nothing
NextSingleAttempt ==
  \/ Tick(MaxSingleTicks)
  \/ Connections({"c1"})
  \/ Requests({1}, MaxFailures, {"c1"}, Kinds, {"Network error"})
  \/ adminResetAll

SpecSingleAttempt == InitSingleAttempt /\ [][NextSingleAttempt]_vars

\* two connections that come, go and go stale; one request at a time
NextSessions ==
  \/ Tick(MaxSessionTicks)
  \/ Connections(ClientIds)
  \/ Departures(ClientIds)
  \/ Requests({1}, MaxSessionFailures, ClientIds, {"navigate"},
              {"Invalid parameters"})

SpecSessions == Init /\ [][NextSessions]_vars

\* the clock of a bounded run stops at limit ticks: a command is registered
\* only while its deadline is still on the clock
Horizon(limit) == now + commandTimeout <= limit * TickMs

\* one request at a time against one agent, the clock running and due
\* timers and continuations scheduled by the event loop
NextLive ==
  \/ Tick(MaxLiveTicks)
  \/ Connections({"c1"})
  \/ /\ Horizon(MaxLiveTicks)
     /\ \E r \in Rand : toolsCall({1}, MaxLiveFailures, "navigate", "{}", r)
  \/ /\ Horizon(MaxLiveTicks)
     /\ \E r \in Rand : retryTimer(1, r)
  \/ \E id \in Rand : handleResponse("c1", id, TRUE, NoError)
  \/ \E id \in Rand : handleResponse("c1", id, FALSE, "Invalid parameters")
  \/ commandTimer(1)
  \/ executeWithRetry(1)
  \/ respond(1)

SpecLive ==
  /\ Init
  /\ [][NextLive]_vars
  /\ WF_vars(Tick(MaxLiveTicks))
  /\ WF_vars(commandTimer(1))
  /\ WF_vars(executeWithRetry(1))

\* the clock runs on for as long as a pending-command timer waits to come
\* due: every call of the executor ends, by a reply or by its timer
TermLimit ==
  IF \E i \in Slots : timers[i].armed /\ now < timers[i].deadline
  THEN now \div TickMs + 1
  ELSE MaxTermTicks

\* one request at a time against one agent that replies, fails with a
\* network error or stays silent; timers and continuations are scheduled
NextTerminate ==
  \/ Tick(TermLimit)
  \/ Connections({"c1"})
  \/ /\ Horizon(MaxTermTicks)
     /\ \E r \in Rand : toolsCall({1}, MaxTermFailures, "navigate", "{}", r)
  \/ \E r \in Rand : retryTimer(1, r)
  \/ \E id \in Rand : handleResponse("c1", id, TRUE, NoError)
  \/ \E id \in Rand : handleResponse("c1", id, FALSE, "Network error")
  \/ commandTimer(1)
  \/ executeWithRetry(1)
  \/ respond(1)

SpecTerminate ==
  /\ Init
  /\ [][NextTerminate]_vars
  /\ WF_vars(Tick(TermLimit))
  /\ WF_vars(commandTimer(1))
  /\ WF_vars(executeWithRetry(1))
  /\ WF_vars(\E r \in Rand : retryTimer(1, r))

\* a caller that enqueues up to MaxQueued commands of any priority, in the
\* same turn or between the turns of processQueue
NextQueue ==
  \/ \E priority \in Priorities : enqueue(priority)
  \/ processQueue
  \/ clearQueue

SpecQueue == Init /\ [][NextQueue]_vars

\* the background worker, a server that accepts or drops its connections
\* and a popup that sends up to MaxPopup messages
NextExtension ==
  \/ popupConnect
  \/ \E bad \in BOOLEAN : handleConfigUpdate(bad)
  \/ handleConnectionOpen
  \/ handleConnectionClose
  \/ handleDetachedClose
  \/ \E n \in TimeoutIndex : reconnectTimer(n)
  \/ advanceClock

SpecExtension == Init /\ [][NextExtension]_vars

\* the same with a popup whose messages include 'disconnect'
NextPopup ==
  \/ NextExtension
  \/ popupDisconnect

SpecPopup == Init /\ [][NextPopup]_vars

NextDelay == callCalculateRetryDelay

NextClassify == callHandleError \/ callCategorizeError

SpecClassify == InitClassify /\ [][NextClassify]_vars

NextPolicies ==
  callGetRetryStrategy \/ callHandleError \/ callCategorizeError

SpecPolicies == InitPolicies /\ [][NextPolicies]_vars

SpecDelay == InitDelay /\ [][NextDelay]_vars

Commands(C) ==
  \E c \in C, command \in FrameCommands, params \in FrameParams :
    handleCommand(c, command, params)

\* one agent that sends command frames
NextFrames ==
  \/ Tick(MaxFrameTicks)
  \/ Connections({"c1"})
  \/ Commands({"c1"})

SpecFrames == Init /\ [][NextFrames]_vars

\* one agent that connects, authenticates, sends heartbeat, response and
\* command frames, closes, and is swept when its heartbeat is stale
NextRegistry ==
  \/ Tick(MaxRegistryTicks)
  \/ Connections({"c1"})
  \/ Departures({"c1"})
  \/ Commands({"c1"})
  \/ \E id \in Rand : handleResponse("c1", id, TRUE, NoError)

SpecRegistry == Init /\ [][NextRegistry]_vars

\* one agent that sends auth and command frames in any order
NextWindow ==
  \/ Tick(MaxWindowTicks)
  \/ Connections({"c1"})
  \/ Commands({"c1"})

SpecWindow == InitWindow /\ [][NextWindow]_vars

\* tools/call with any tool name, one request at a time against one agent
NextTools ==
  \/ Tick(MaxTicks)
  \/ Connections({"c1"})
  \/ Requests({1}, MaxToolFailures, {"c1"}, {"navigate", UnknownKind},
              {"Invalid parameters"})

SpecTools == Init /\ [][NextTools]_vars

(***************************************************************************)
(* Claims.                                                                 *)
(***************************************************************************)
Running == {"await", "resolved", "rejected", "sleep"}

EntriesOf(i) == {id \in DOMAIN pendingCommands : pendingCommands[id] = i}

Settles(i) == inv[i].pc = "await" /\ inv'[i].pc \in {"resolved", "rejected"}

\* C1: for every registration at most one of {reply, timeout timer} settles
\* the awaited promise: resolve/reject is called at most once on it, the
\* settling step removes the pending entry and leaves no timer armed, and a
\* promise is settled only by a reply that finds its entry or by its own due
\* timer, so a later or duplicate reply (no entry) settles nothing.
C1_ExactlyOnce ==
  /\ [](\A i \in Slots :
          /\ inv[i].settles <= 1
          /\ timers[i].armed <=> inv[i].pc = "await"
          /\ inv[i].pc = "await" => inv[i].settles = 0
          /\ inv[i].pc # "await" => EntriesOf(i) = {})
  /\ [][\A i \in Slots :
          /\ Settles(i) =>
               /\ EntriesOf(i) # {} \/ (timers[i].armed /\ now >= timers[i].deadline)
               /\ ~ timers'[i].armed
               /\ \A id \in DOMAIN pendingCommands' : pendingCommands'[id] # i
       ]_vars

\* C1 witness: one promise was settled by a reply and another by its
\* timeout timer, each exactly once.
C1_Witness ==
  \E i, j \in Slots :
    /\ inv[i].outcome = "success" /\ inv[i].settles = 1
    /\ inv[j].pc = "rejected" /\ inv[j].lastError = TimeoutMessage
    /\ inv[j].settles = 1

\* C2 (as claimed): the step that removes a session from the registry also
\* removes every pending command targeted at it.
C2_DisconnectRejectsPending ==
  [][\A c \in ClientIds :
       (hasClient(c) /\ ~ (\E n \in 1..Len(clients') : clients'[n].id = c))
       => \A id \in DOMAIN pendingCommands' :
            inv'[pendingCommands'[id]].client # c
    ]_vars

State(table, key) == IF key \in DOMAIN table THEN table[key].state ELSE "none"

Completes(i, outcome) ==
  inv[i].pc # "done" /\ inv'[i].pc = "done" /\ inv'[i].outcome = outcome

\* executeWithRetry is entered in slot i (a tools/call with a connected client)
Enters(i) ==
  inv[i].pc = "idle" /\ inv'[i].pc # "idle" /\ inv'[i].outcome # "no_clients"

KeyAfter(i) == circuitBreakerKey(inv'[i].command, inv'[i].params)

\* C3: the failure count of a signature is the number of failed invocations
\* since its last success: a failed invocation adds one and leaves the
\* breaker OPEN exactly when the count has reached 5, a successful one sets
\* the count to 0 and the state to CLOSED, nothing else raises the count,
\* and no breaker is OPEN with a count below 5.
C3_OpensAtThreshold ==
  /\ [](\A k \in DOMAIN circuitBreakerState :
          /\ circuitBreakerState[k].state = "OPEN"
               => circuitBreakerState[k].failures >= circuitBreakerThreshold
          /\ circuitBreakerState[k].failures < circuitBreakerThreshold
               => circuitBreakerState[k].state = "CLOSED")
  /\ [][/\ \A i \in Slots :
            /\ Completes(i, "error") =>
                 /\ Failures(circuitBreakerState', keyOf(i))
                      = Failures(circuitBreakerState, keyOf(i)) + 1
                 /\ State(circuitBreakerState', keyOf(i)) = "OPEN"
                      <=> Failures(circuitBreakerState', keyOf(i))
                            >= circuitBreakerThreshold
            /\ Completes(i, "success") =>
                 /\ Failures(circuitBreakerState', keyOf(i)) = 0
                 /\ State(circuitBreakerState', keyOf(i)) \in {"none", "CLOSED"}
        /\ \A k \in Keys :
             Failures(circuitBreakerState', k) > Failures(circuitBreakerState, k)
               => \E i \in Slots : keyOf(i) = k /\ Completes(i, "error")
       ]_vars

\* C3 witness: a breaker that is OPEN with exactly 5 failures counted.
C3_Witness ==
  \E k \in DOMAIN circuitBreakerState :
    /\ circuitBreakerState[k].state = "OPEN"
    /\ circuitBreakerState[k].failures = circuitBreakerThreshold

\* C4: an executeWithRetry call that finds its breaker OPEN with the
\* cooldown not elapsed ends with the circuit-open error in the same step,
\* runs no executor, registers no command and leaves the breaker table as
\* it was.
C4_ShortCircuit ==
  [][\A i \in Slots :
       (/\ Enters(i)
        /\ State(circuitBreakerState, KeyAfter(i)) = "OPEN"
        /\ now - circuitBreakerState[KeyAfter(i)].lastFailureTime
             <= circuitBreakerTimeout)
       => /\ inv'[i].pc = "done"
          /\ inv'[i].outcome = "circuit_open"
          /\ inv'[i].calls = 0
          /\ circuitBreakerState' = circuitBreakerState
          /\ pendingCommands' = pendingCommands
    ]_vars

\* C4 witness: a call was short-circuited while the breaker is OPEN.
C4_Witness ==
  \E i \in Slots :
    /\ inv[i].outcome = "circuit_open"
    /\ State(circuitBreakerState, keyOf(i)) = "OPEN"

\* C5 (as claimed): a breaker entry changes state only along CLOSED->OPEN,
\* OPEN->HALF_OPEN, HALF_OPEN->CLOSED and HALF_OPEN->OPEN.
C5_TransitionsOnly ==
  [][\A k \in DOMAIN circuitBreakerState \cap DOMAIN circuitBreakerState' :
       \/ circuitBreakerState'[k].state = circuitBreakerState[k].state
       \/ <<circuitBreakerState[k].state, circuitBreakerState'[k].state>> \in
            {<<"CLOSED", "OPEN">>, <<"OPEN", "HALF_OPEN">>,
             <<"HALF_OPEN", "CLOSED">>, <<"HALF_OPEN", "OPEN">>}
    ]_vars

\* C6 (as claimed): while the probe that moved a breaker to HALF_OPEN has
\* not finished, every other executeWithRetry call for the same signature
\* is short-circuited and runs no executor.
C6_SingleProbe ==
  [][\A i, j \in Slots :
       (/\ i # j
        /\ inv[j].probe /\ inv[j].pc \in Running
        /\ Enters(i)
        /\ KeyAfter(i) = keyOf(j))
       => inv'[i].outcome = "circuit_open" /\ inv'[i].calls = 0
    ]_vars

maxRetriesOf(i) == getRetryStrategy(inv[i].command).maxRetries

\* C7: one invocation runs its executor at most maxRetries + 1 times; the
\* attempt in flight has index retryCount; a failed attempt is followed by
\* a retry only when its index is below maxRetries and its error code is in
\* the retryable set, and a failure at index maxRetries ends the invocation
\* with the error.
C7_RetryBudget ==
  /\ [](\A i \in Slots :
          /\ inv[i].calls <= maxRetriesOf(i) + 1
          /\ inv[i].pc \in {"await", "resolved", "rejected"}
               => inv[i].calls = inv[i].retryCount + 1
          /\ inv[i].pc = "sleep"
               => /\ inv[i].retryCount < maxRetriesOf(i)
                  /\ extractErrorCode(inv[i].lastError)
                       \in getRetryStrategy(inv[i].command).retryableErrors)
  /\ [][\A i \in Slots :
          (/\ inv[i].pc = "rejected"
           /\ inv'[i] # inv[i]
           /\ \/ inv[i].retryCount >= maxRetriesOf(i)
              \/ extractErrorCode(inv[i].lastError)
                   \notin getRetryStrategy(inv[i].command).retryableErrors)
          => Completes(i, "error")
       ]_vars

\* C7 witness: an invocation that failed after maxRetries + 1 executor runs.
C7_Witness ==
  \E i \in Slots :
    /\ inv[i].pc = "done" /\ inv[i].outcome = "error"
    /\ inv[i].retryCount = maxRetriesOf(i)
    /\ inv[i].calls = maxRetriesOf(i) + 1

\* C8: an invocation raises the failure count of its signature by exactly
\* one, in the step where it ends in failure after at least one attempt,
\* and by nothing in any other step: not per attempt, not when it succeeds,
\* not when it is short-circuited.
C8_OneFailurePerInvocation ==
  /\ [](\A i \in Slots :
          /\ inv[i].recorded <= 1
          /\ (inv[i].pc = "done" /\ inv[i].outcome = "error")
               => inv[i].recorded = 1 /\ inv[i].calls >= 1
          /\ (inv[i].pc \in Running \/ (inv[i].pc = "done" /\ inv[i].outcome # "error"))
               => inv[i].recorded = 0)
  /\ [][\A k \in Keys :
          IF \E i \in Slots : keyOf(i) = k /\ Completes(i, "error")
          THEN Failures(circuitBreakerState', k)
                 = Failures(circuitBreakerState, k) + 1
          ELSE Failures(circuitBreakerState', k)
                 <= Failures(circuitBreakerState, k)
       ]_vars

\* C8 witness: an invocation that failed after three attempts and counted
\* one failure.
C8_Witness ==
  \E i \in Slots :
    /\ inv[i].pc = "done" /\ inv[i].outcome = "error"
    /\ inv[i].calls = 3
    /\ inv[i].recorded = 1
    /\ Failures(circuitBreakerState, keyOf(i)) = 1

\* the errors the claim places in the VALIDATION and PERMISSION categories
ValidationOrPermission ==
  {"Invalid parameters", "Invalid URL", "Permission denied", "Tab not found"}

\* C9 (as claimed): no invocation waits to retry after an attempt failed
\* with invalid parameters, invalid URL, permission denied or tab not found.
C9_NeverRetried ==
  \A i \in Slots :
    inv[i].pc = "sleep" => inv[i].lastError \notin ValidationOrPermission

\* C10: an invocation that returns success after k failed attempts has run
\* its executor exactly k + 1 times with k <= maxRetries, a resolved attempt
\* always ends the invocation with success, and when the invocation has
\* returned no pending entry of any of its attempts and no armed timer is
\* left.
C10_SuccessAfterRetries ==
  /\ [](\A i \in Slots :
          (inv[i].pc = "done" /\ inv[i].outcome = "success")
          => /\ inv[i].calls = inv[i].retryCount + 1
             /\ inv[i].retryCount <= maxRetriesOf(i)
             /\ EntriesOf(i) = {}
             /\ ~ timers[i].armed)
  /\ [][\A i \in Slots :
          (inv[i].pc = "resolved" /\ inv'[i] # inv[i])
          => Completes(i, "success")
       ]_vars

\* C10 witness: success on the third executor run after two retryable
\* failures (one NETWORK, one TIMEOUT class), with an empty pending map.
C10_Witness ==
  \E i \in Slots :
    /\ inv[i].pc = "done" /\ inv[i].outcome = "success"
    /\ inv[i].retryCount = 2 /\ inv[i].calls = 3
    /\ inv[i].lastError \in {"Network error", TimeoutMessage}
    /\ DOMAIN pendingCommands = {}

Expired(client) == now - client.windowStart > windowMs

\* C11: a registered client's counter never exceeds 100; a command frame
\* that reaches checkRateLimit is denied when the window is unexpired and
\* the counter is at 100, and the denial leaves counter and window start as
\* they were; in an expired window it is accepted, the counter restarts
\* at 1 and the window starts now; otherwise it is accepted and counted.
C11_RateLimit ==
  /\ [](\A c \in ClientIds :
          hasClient(c) => getClient(c).requests <= maxRequests)
  /\ [][\A c \in ClientIds :
          (hasClient(c) /\ handleCommand(c, "navigate", "object"))
          => LET old == getClient(c)
                 new == clients'[ClientIndex(c)]
             IN  IF Expired(old)
                 THEN /\ new.requests = 1 /\ new.windowStart = now
                      /\ executedCommand'.clientId = c
                 ELSE IF old.requests >= maxRequests
                 THEN /\ clients' = clients
                      /\ lastReply'[c] = "RATE_LIMIT_EXCEEDED"
                      /\ executedCommand' = executedCommand
                 ELSE /\ new.requests = old.requests + 1
                      /\ new.windowStart = old.windowStart
                      /\ executedCommand'.clientId = c
       ]_vars

\* C11 witness: a client whose 101st frame in a window was denied.
C11_Witness ==
  \E c \in ClientIds :
    /\ hasClient(c)
    /\ getClient(c).requests = maxRequests
    /\ ~ Expired(getClient(c))
    /\ lastReply[c] = "RATE_LIMIT_EXCEEDED"

\* C12 (as claimed): no command of a kind outside validTypes has its
\* executor run by the retry manager (which sends it to the agent) or is
\* run by the command queue.
C12_KnownKindsOnly ==
  /\ \A i \in Slots : inv[i].calls >= 1 => inv[i].command \in validTypes
  /\ executedCommand # NoCommand => executedCommand.type \in validTypes

\* params values that are present in the frame and are not objects
NotAnObject == {"string", "zero"}

\* C13 (as claimed): a command frame from a registered session with an
\* unknown kind or with params that are not an object is answered with INVALID_PARAMS in the step that
\* handles it, runs no command and leaves the registry as it was.
C13_InvalidFrameRejected ==
  [][\A c \in ClientIds, command \in FrameCommands, params \in FrameParams :
       (/\ hasClient(c)
        /\ handleCommand(c, command, params)
        /\ \/ MCPCommand(c, command, params).type \notin validTypes
           \/ params \in NotAnObject)
       => /\ lastReply'[c] = "INVALID_PARAMS"
          /\ executedCommand' = executedCommand
          /\ clients' = clients
    ]_vars

\* C14: a registered command that awaits its reply is eventually settled;
\* the timer callback rejects it with the timeout error and removes its
\* entry; a reply whose id has no entry (it comes after the timer fired)
\* changes no invocation, entry or timer.
C14_EventuallySettled ==
  /\ \A i \in Slots :
       (inv[i].pc = "await") ~> (inv[i].pc \in {"resolved", "rejected"})
  /\ [][\A i \in Slots :
          commandTimer(i)
          => /\ inv'[i].pc = "rejected"
             /\ inv'[i].lastError = TimeoutMessage
             /\ EntriesOf(i)' = {}
       ]_vars
  /\ [][\A c \in ClientIds, id \in Rand :
          (id \notin DOMAIN pendingCommands
           /\ \/ handleResponse(c, id, TRUE, NoError)
              \/ \E m \in AgentMessages : handleResponse(c, id, FALSE, m))
          => UNCHANGED <<inv, pendingCommands, timers>>
       ]_vars

\* C14 witness: the caller was given the timeout error of a command that
\* got no reply, and its entry is gone.
C14_Witness ==
  \E i \in Slots :
    /\ inv[i].pc = "done" /\ inv[i].outcome = "error"
    /\ inv[i].lastError = TimeoutMessage
    /\ inv[i].settles = 1
    /\ DOMAIN pendingCommands = {}

\* C15 (as claimed): an invocation that sleeps between attempts while its
\* target session is no longer registered runs no further attempt.
C15_SleepCancelled ==
  [][\A i \in Slots :
       (inv[i].pc = "sleep" /\ ~ hasClient(inv[i].client))
       => inv'[i].pc # "await"
    ]_vars

idsOf(cs) == {cs[n].id : n \in 1..Len(cs)}

\* C16: a sweep removes exactly the sessions whose last heartbeat is more
\* than 120000 ms old, each of them once, and leaves the other records and
\* their order as they were; no session a second sweep would remove is
\* left.
C16_SweepExact ==
  [][cleanupStaleConnections
     => LET stale == {n \in 1..Len(clients) :
                        now - clients[n].lastHeartbeat > staleTimeout}
        IN  /\ idsOf(clients') = {clients[n].id : n \in 1..Len(clients) \ stale}
            /\ Len(clients') = Len(clients) - Cardinality(stale)
            /\ \A m \in 1..Len(clients') :
                 \E n \in 1..Len(clients) \ stale : clients'[m] = clients[n]
            /\ \A m1, m2 \in 1..Len(clients') :
                 m1 < m2 => \E n1, n2 \in 1..Len(clients) :
                              /\ n1 < n2
                              /\ clients[n1] = clients'[m1]
                              /\ clients[n2] = clients'[m2]
            /\ \A m \in 1..Len(clients') :
                 now - clients'[m].lastHeartbeat <= staleTimeout
    ]_vars

\* C16 witness: a session that authenticated and is still connected has
\* been swept, another whose heartbeat is older than now was kept.
C16_Witness ==
  \E c, d \in ClientIds :
    /\ conns[c] = "open" /\ lastReply[c] = "auth_success" /\ ~ hasClient(c)
    /\ hasClient(d)
    /\ getClient(d).lastHeartbeat < now
    /\ now - getClient(d).lastHeartbeat <= staleTimeout

\* C17 (as claimed): the sweep removes no session whose last heartbeat or
\* response frame came within the idle limit.
C17_FramesKeepAlive ==
  [][\A c \in ClientIds :
       (cleanupStaleConnections /\ hasClient(c) /\ c \notin idsOf(clients'))
       => now - getClient(c).lastActivity > staleTimeout
    ]_vars

entryOf(cs, c) == cs[CHOOSE n \in 1..Len(cs) : cs[n].id = c]

C19_DelayBounds ==
  /\ calc.called =>
       LET d == backoffDelay(retryStrategies[calc.policy], calc.retryCount)
           v == calc.result
       IN  /\ d[1] <= v * d[2]
           /\ 10 * v * d[2] <= 11 * d[1]
  /\ \A i \in 0..2 :
       backoffDelay(retryStrategies["default"], i) = <<1000 * pow(2, i), 1>>

\* C20 (as claimed): the error given to the caller of a failed invocation
\* has the message of the final attempt's error and carries its category,
\* recoverability flag and fallback strategies.
C20_ErrorAugmented ==
  \A i \in Slots :
    (inv[i].pc = "done" /\ inv[i].outcome = "error")
    => /\ errorReply(i).message = "Command failed: " \o inv[i].lastError
       /\ {"category", "recoverable", "fallbackStrategies"}
            \subseteq (DOMAIN thrownError(i) \cup DOMAIN errorReply(i))

\* an attempt of slot i registers its command (the executor ran up to its await)
Registers(i) == inv[i].pc # "await" /\ inv'[i].pc = "await"

\* C21: no registration receives the id of another command that is still
\* outstanding: the id an attempt registers is never one that a pending
\* entry of another invocation, registered in the same millisecond, holds.
C21_UniqueIds ==
  [][\A i \in Slots :
       Registers(i) =>
         ~ \E j \in Slots \ {i} :
             /\ inv[j].pc = "await"
             /\ timers[j].armed
             /\ timers[j].deadline = now + commandTimeout
             /\ inv[j].id = inv'[i].id
    ]_vars

\* the sockets that receive a frame addressed to clientId: every open one,
\* when the client is registered
sendMessageToClient(clientId) ==
  IF hasClient(clientId)
  THEN {c \in ClientIds : conns[c] = "open"}
  ELSE {}

\* C22: the command frame of an attempt goes to the target session and to
\* no other: the set of sockets that receive it is exactly the target.
C22_TargetOnly ==
  [][\A i \in Slots :
       Registers(i) => sendMessageToClient(inv'[i].client) = {inv'[i].client}
    ]_vars

\* C26: a check (the one executeWithRetry makes on entry) of a breaker that
\* is OPEN returns true while now - lastFailureTime <= 60000 and leaves it
\* OPEN; the first check after more than 60000 ms since the last recorded
\* failure returns false (the executor runs) and leaves it HALF_OPEN.
C26_CooldownCheck ==
  [][\A i \in Slots :
       (Enters(i) /\ State(circuitBreakerState, KeyAfter(i)) = "OPEN")
       => LET entry == circuitBreakerState[KeyAfter(i)]
          IN  IF now - entry.lastFailureTime <= 60000
              THEN /\ inv'[i].outcome = "circuit_open"
                   /\ State(circuitBreakerState', KeyAfter(i)) = "OPEN"
              ELSE /\ inv'[i].pc = "await"
                   /\ inv'[i].calls = 1
                   /\ State(circuitBreakerState', KeyAfter(i)) = "HALF_OPEN"
                   /\ circuitBreakerState'[KeyAfter(i)].failures = entry.failures
                   /\ circuitBreakerState'[KeyAfter(i)].lastFailureTime
                        = entry.lastFailureTime
    ]_vars

\* C26 witness: the check after the cooldown let an invocation through: its
\* attempt is awaited and the breaker is HALF_OPEN, more than 60000 ms after
\* the last failure.
C26_Witness ==
  \E i \in Slots :
    /\ inv[i].pc = "await"
    /\ inv[i].probe
    /\ State(circuitBreakerState, keyOf(i)) = "HALF_OPEN"
    /\ now - circuitBreakerState[keyOf(i)].lastFailureTime > 60000

\* C27: an invocation that completes while its breaker is HALF_OPEN decides
\* the next state: success leaves it CLOSED with 0 failures; failure leaves
\* it OPEN with lastFailureTime the time of that failure, so that a check
\* made then finds the breaker open.
C27_ProbeDecides ==
  [][\A i \in Slots :
       State(circuitBreakerState, keyOf(i)) = "HALF_OPEN" =>
         /\ Completes(i, "success") =>
              /\ circuitBreakerState'[keyOf(i)].state = "CLOSED"
              /\ circuitBreakerState'[keyOf(i)].failures = 0
         /\ Completes(i, "error") =>
              /\ circuitBreakerState'[keyOf(i)].state = "OPEN"
              /\ circuitBreakerState'[keyOf(i)].lastFailureTime = now
              /\ circuitBreakerState'[keyOf(i)].failures
                   = circuitBreakerState[keyOf(i)].failures + 1
    ]_vars

\* C27 witness: a probe has failed after the cooldown: the breaker is OPEN
\* again and its lastFailureTime is the time of the probe's failure.
C27_Witness ==
  \E i \in Slots :
    /\ inv[i].pc = "done" /\ inv[i].probe /\ inv[i].outcome = "error"
    /\ State(circuitBreakerState, keyOf(i)) = "OPEN"
    /\ circuitBreakerState[keyOf(i)].lastFailureTime = now
    /\ now > 60000

\* the policy of the invocation in slot i has no retryable error
NothingRetryable(i) ==
  /\ inv[i].command \in DOMAIN errorHandlerConfig.commandRetryStrategies
  /\ errorHandlerConfig.commandRetryStrategies[inv[i].command].retryableErrors
       = {}

\* C29: under a policy with an empty retryable set an invocation never
\* sleeps for a retry and never makes a second attempt; the failure of its
\* attempt ends it in the same step with exactly one failure recorded for
\* its signature, and the breaker is OPEN after it exactly when the count
\* has reached 5.
C29_SingleAttempt ==
  /\ [](\A i \in Slots :
          NothingRetryable(i) =>
            /\ inv[i].pc # "sleep"
            /\ inv[i].calls <= 1
            /\ inv[i].retryCount = 0)
  /\ [][\A i \in Slots :
          (NothingRetryable(i) /\ inv[i].pc = "rejected") =>
            /\ inv'[i].pc = "done"
            /\ inv'[i].outcome = "error"
            /\ inv'[i].calls = 1
            /\ Failures(circuitBreakerState', keyOf(i))
                 = Failures(circuitBreakerState, keyOf(i)) + 1
            /\ \A k \in DOMAIN circuitBreakerState \ {keyOf(i)} :
                 circuitBreakerState'[k] = circuitBreakerState[k]
            /\ State(circuitBreakerState', keyOf(i)) = "OPEN"
                 <=> Failures(circuitBreakerState', keyOf(i)) >= 5
       ]_vars

\* C29 witness: the fifth single-attempt failure of a retryable-by-default
\* error (a network error) has opened the breaker of the signature.
C29_Witness ==
  \E i \in Slots :
    /\ NothingRetryable(i)
    /\ inv[i].pc = "done" /\ inv[i].outcome = "error" /\ inv[i].calls = 1
    /\ inv[i].lastError = "Network error"
    /\ State(circuitBreakerState, keyOf(i)) = "OPEN"
    /\ circuitBreakerState[keyOf(i)].failures = 5

\* C30: the breaker table has an entry for exactly the signatures that
\* failed since the last resetAll: a failed invocation adds the entry of its
\* signature (if it is not there), a successful one leaves the set of
\* entries as it is, entries leave the table only all together (resetAll),
\* and nothing else changes the set of entries.
C30_EntriesAreFailedSignatures ==
  [][/\ \A i \in Slots :
          /\ Completes(i, "success") =>
               DOMAIN circuitBreakerState' = DOMAIN circuitBreakerState
          /\ Completes(i, "error") =>
               DOMAIN circuitBreakerState'
                 = DOMAIN circuitBreakerState \cup {keyOf(i)}
     /\ DOMAIN circuitBreakerState \ DOMAIN circuitBreakerState' # {}
          => DOMAIN circuitBreakerState' = {}
     /\ \A k \in DOMAIN circuitBreakerState' \ DOMAIN circuitBreakerState :
          /\ \E i \in Slots : Completes(i, "error") /\ keyOf(i) = k
          /\ circuitBreakerState'[k].failures = 1
    ]_vars

\* C30 witness: two signatures have failed and have an entry each; one of
\* them has succeeded since and keeps its entry, with 0 failures.
C30_Witness ==
  /\ Cardinality(DOMAIN circuitBreakerState) = 2
  /\ \E k \in DOMAIN circuitBreakerState : circuitBreakerState[k].failures = 0
  /\ \E i \in Slots : inv[i].pc = "done" /\ inv[i].outcome = "success"

\* the category the classification is to give an ErrorCode
CategoryOf(errorCode) ==
  CASE errorCode \in {"NETWORK_ERROR", "CLOUDFLARE_BLOCK", "NAVIGATION_FAILED"}
         -> "NETWORK"
    [] errorCode \in {"SELECTOR_NOT_FOUND", "ELEMENT_NOT_FOUND",
                      "ELEMENT_NOT_VISIBLE", "ELEMENT_NOT_INTERACTABLE"}
         -> "SELECTOR"
    [] errorCode \in {"PERMISSION_DENIED", "TAB_NOT_FOUND"} -> "PERMISSION"
    [] errorCode = "TIMEOUT" -> "TIMEOUT"
    [] errorCode \in {"INVALID_PARAMS", "INVALID_URL"} -> "VALIDATION"
    [] errorCode \in ErrorCodes -> "SYSTEM"

\* C25: every error message handed to handleError gets one ErrorCode of the
\* enum, UNKNOWN when it holds none of the searched words, and every
\* ErrorCode gets the one category of the table: NETWORK, SELECTOR,
\* PERMISSION, TIMEOUT, VALIDATION, and SYSTEM for all the others.
C25_Classification ==
  errorContext.called =>
    /\ errorContext.errorCode \in ErrorCodes
    /\ errorContext.category = CategoryOf(errorContext.errorCode)
    /\ (errorContext.call = "handleError"
        /\ Substrings(errorContext.message) = {})
         => /\ errorContext.errorCode = "UNKNOWN"
            /\ errorContext.category = "SYSTEM"

\* C25 witness: TAB_NOT_FOUND has been categorized, as PERMISSION.
C25_Witness ==
  /\ errorContext.called
  /\ errorContext.errorCode = "TAB_NOT_FOUND"
  /\ errorContext.category = "PERMISSION"

\* C28: an invocation of executeWithRetry that is under way ends, with a
\* value or an error; every retry raises retryCount by exactly one, a retry
\* is made only below maxRetries (3), and so no invocation makes more than
\* maxRetries + 1 attempts.
C28_Terminates ==
  /\ (inv[1].pc \in Running) ~> (inv[1].pc = "done")
  /\ [][\A i \in Slots :
          /\ (inv[i].pc = "sleep" /\ Registers(i)) =>
               /\ inv'[i].retryCount = inv[i].retryCount + 1
               /\ inv[i].retryCount < 3
          /\ (inv[i].pc \in Running /\ inv'[i].pc \in Running) =>
               inv'[i].retryCount >= inv[i].retryCount
          /\ inv'[i].calls <= 3 + 1
       ]_vars

\* C28 witness: an invocation has ended with an error after all four
\* attempts its policy allows.
C28_Witness ==
  /\ inv[1].pc = "done" /\ inv[1].outcome = "error"
  /\ inv[1].retryCount = 3
  /\ inv[1].calls = 4

\* the rank of a priority: high before normal before low, none = normal
Rank(priority) ==
  CASE priority = "high" -> 0
    [] priority = "low" -> 2
    [] OTHER -> 1

\* command x goes before command y
Before(x, y) ==
  \/ Rank(x.priority) < Rank(y.priority)
  \/ Rank(x.priority) = Rank(y.priority) /\ x.id < y.id

\* C23: the waiting commands are kept in the order of their rank and, within
\* a rank, of their enqueue number; the command that processQueue takes out
\* of the queue and executes goes before every command that stays waiting.
C23_PriorityOrder ==
  /\ [](\A m, n \in 1..Len(commandQueue.queue) :
          m < n => Before(commandQueue.queue[m], commandQueue.queue[n]))
  /\ [][Len(commandQueue.executed') > Len(commandQueue.executed) =>
          LET x == commandQueue.executed'[Len(commandQueue.executed')]
          IN  /\ Len(commandQueue.executed')
                   = Len(commandQueue.executed) + 1
              /\ \A n \in 1..Len(commandQueue.queue') :
                   Before(x, commandQueue.queue'[n])
       ]_vars

\* C23 witness: three commands waited together and were executed in the
\* reverse of their enqueue order: the high one first, then the one without
\* priority, then the low one.
C23_Witness ==
  LET executed == commandQueue.executed
  IN  \E l, m, n \in 1..Len(executed) :
        /\ l < m /\ m < n
        /\ executed[l].priority = "high"
        /\ executed[m].priority = Absent
        /\ executed[n].priority = "low"
        /\ executed[n].id < executed[m].id
        /\ executed[m].id < executed[l].id

\* C24 (as claimed): every close of the connection schedules one reconnect,
\* reconnectDelay * attemptNumber ms later, for as long as fewer than 10
\* have been scheduled; a successful open sets the attempt counter to 0; and
\* between two successful opens at most 10 reconnect attempts are made.
C24_AutoReconnect ==
  /\ [](ext.reconnectAttempts <= 10 /\ ext.reconnects <= 10)
  /\ [][/\ handleConnectionOpen => ext'.reconnectAttempts = 0
        /\ (handleConnectionClose \/ handleDetachedClose) =>
             IF ext.reconnectAttempts < 10
             THEN /\ ext'.reconnectAttempts = ext.reconnectAttempts + 1
                  /\ ext'.timeouts =
                       Append(ext.timeouts,
                              [kind |-> "reconnect",
                               delay |-> 5000 * ext'.reconnectAttempts,
                               due |-> ext.clock
                                       + 5000 * ext'.reconnectAttempts])
             ELSE /\ ext'.reconnectAttempts = ext.reconnectAttempts
                  /\ ext'.timeouts = ext.timeouts
       ]_vars

\* C31: resetAllCircuitBreakers leaves the breaker table empty, whatever
\* was in it, and an executeWithRetry call for a signature without an
\* entry is never short-circuited: it runs its executor.
C31_ResetAllClears ==
  [][/\ adminResetAll => DOMAIN circuitBreakerState' = {}
     /\ \A i \in Slots :
          (Enters(i) /\ KeyAfter(i) \notin DOMAIN circuitBreakerState)
          => /\ inv'[i].pc = "await"
             /\ inv'[i].calls = 1
             /\ inv'[i].outcome = "none"
             /\ inv'[i].id \in DOMAIN pendingCommands'
    ]_vars

\* C31 witness: a call for a signature was short-circuited (its breaker was
\* OPEN), the table has been emptied since, and another call for the same
\* signature, entered at the present time, awaits the reply to its command.
C31_Witness ==
  \E i, j \in Slots :
    /\ inv[i].pc = "done" /\ inv[i].outcome = "circuit_open"
    /\ inv[j].pc = "await" /\ inv[j].calls = 1 /\ inv[j].retryCount = 0
    /\ timers[j].deadline = now + commandTimeout
    /\ keyOf(i) = keyOf(j)
    /\ DOMAIN circuitBreakerState = {}

\* C32: the policy getRetryStrategy returns for a command kind is the one
\* registered for that kind when there is one, and otherwise the default
\* policy, maxRetries 3, baseDelay 1000, maxDelay 10000, multiplier 2; it is
\* always a policy.
C32_PolicyLookup ==
  (errorContext.called
   /\ errorContext.call \in {"getRetryStrategy", "handleError"})
  => LET registered == errorHandlerConfig.commandRetryStrategies
         strategy == errorContext.strategy
     IN  /\ strategy # NoStrategy
         /\ IF errorContext.command \in DOMAIN registered
            THEN strategy = registered[errorContext.command]
            ELSE /\ strategy.maxRetries = 3
                 /\ strategy.baseDelay = 1000
                 /\ strategy.maxDelay = 10000
                 /\ strategy.backoffMultiplier = 2

\* C32 witness: getRetryStrategy has returned the registered navigate
\* policy (maxRetries 5) under a configuration that registers one.
C32_Witness ==
  /\ errorContext.called
  /\ errorContext.call = "getRetryStrategy"
  /\ errorContext.command = "navigate"
  /\ "navigate" \in DOMAIN errorHandlerConfig.commandRetryStrategies
  /\ errorContext.strategy.maxRetries = 5

\* C33: in every reachable state every breaker entry that is OPEN or
\* HALF_OPEN has counted at least 5 failures and every entry that is CLOSED
\* has counted fewer than 5.
C33_StateMatchesCount ==
  \A k \in DOMAIN circuitBreakerState :
    LET entry == circuitBreakerState[k]
    IN  /\ entry.state \in {"CLOSED", "OPEN", "HALF_OPEN"}
        /\ entry.state \in {"OPEN", "HALF_OPEN"} => entry.failures >= 5
        /\ entry.state = "CLOSED" => entry.failures < 5

\* C33 witness: a breaker is HALF_OPEN, with its 5 failures still counted,
\* while the invocation that was let through is under way.
C33_Witness ==
  \E k \in DOMAIN circuitBreakerState :
    /\ circuitBreakerState[k].state = "HALF_OPEN"
    /\ circuitBreakerState[k].failures = 5
    /\ \E i \in Slots : keyOf(i) = k /\ inv[i].pc \in Running

\* C34: the breakers of different signatures are independent: the check an
\* entered call makes, the failure and the success an ending invocation
\* records for its signature leave the entry of every other signature in
\* the table, with the same count, lastFailureTime and state.
C34_Independent ==
  [][\A i \in Slots :
       (Enters(i) \/ Completes(i, "success") \/ Completes(i, "error")
        \/ Completes(i, "circuit_open"))
       => \A k \in DOMAIN circuitBreakerState :
            k # KeyAfter(i) =>
              /\ k \in DOMAIN circuitBreakerState'
              /\ circuitBreakerState'[k].failures
                   = circuitBreakerState[k].failures
              /\ circuitBreakerState'[k].lastFailureTime
                   = circuitBreakerState[k].lastFailureTime
              /\ circuitBreakerState'[k].state = circuitBreakerState[k].state
    ]_vars

\* C34 witness: one signature's breaker is OPEN and short-circuits its
\* calls while another signature has an entry with one failure, recorded
\* later, that is still CLOSED.
C34_Witness ==
  \E k, l \in DOMAIN circuitBreakerState :
    /\ k # l
    /\ circuitBreakerState[k].state = "OPEN"
    /\ circuitBreakerState[l].state = "CLOSED"
    /\ circuitBreakerState[l].failures = 1
    /\ circuitBreakerState[l].lastFailureTime
         > circuitBreakerState[k].lastFailureTime
    /\ \E i \in Slots : inv[i].outcome = "circuit_open" /\ keyOf(i) = k

\* C35 (as claimed): a response frame that carries the id of a pending
\* command and comes from a connection other than the session the command
\* was sent to, or from a connection that is not registered, settles
\* nothing: the invocation, its pending entry and its timer stay as they are.
C35_OnlyTargetSettles ==
  [][\A c \in ClientIds, id \in Rand :
       (/\ id \in DOMAIN pendingCommands
        /\ (inv[pendingCommands[id]].client # c \/ ~ hasClient(c))
        /\ \/ handleResponse(c, id, TRUE, NoError)
           \/ \E m \in AgentMessages : handleResponse(c, id, FALSE, m))
       => UNCHANGED <<inv, pendingCommands, timers>>
    ]_vars

\* C36: a client id that has no registry entry gets one only by the
\* handling of an auth frame of its connection: heartbeat, response and
\* command frames, a close, a sweep and the clock leave it absent.
C36_OnlyAuthRegisters ==
  [][\A c \in ClientIds :
       (c \notin idsOf(clients) /\ c \in idsOf(clients')) => handleAuth(c)
    ]_vars

\* C36 witness: a session that had a command accepted was removed (by the
\* sweep, or by a close after which the agent connected again); on its open
\* connection a later command frame was refused, and it is still absent.
C36_Witness ==
  /\ conns["c1"] = "open"
  /\ ~ hasClient("c1")
  /\ executedCommand.clientId = "c1"
  /\ lastReply["c1"] = "RATE_LIMIT_EXCEEDED"

\* C37: a command frame of a connection without a registry entry is
\* answered with an error frame and nothing is handed to the command
\* queue; the registry stays as it was.
C37_UnregisteredNeverQueued ==
  [][\A c \in ClientIds, command \in FrameCommands, params \in FrameParams :
       (~ hasClient(c) /\ handleCommand(c, command, params))
       => /\ lastReply'[c] \in {"INVALID_PARAMS", "RATE_LIMIT_EXCEEDED"}
          /\ executedCommand' = executedCommand
          /\ clients' = clients
    ]_vars

\* C37 witness: a connection that never authenticated sent a well-formed
\* command frame: it was answered RATE_LIMIT_EXCEEDED and no command has
\* been run.
C37_Witness ==
  /\ conns["c1"] = "open"
  /\ ~ hasClient("c1")
  /\ clients = <<>>
  /\ executedCommand = NoCommand
  /\ lastReply["c1"] = "RATE_LIMIT_EXCEEDED"

\* how often the command with this id occurs in a sequence of commands
Occurrences(q, id) == Cardinality({n \in 1..Len(q) : q[n].id = id})

\* C39: at most one processQueue loop is active, the processing flag is
\* set exactly while it is, no command waits in the queue with no loop
\* active, and every enqueued command is in exactly one place, once:
\* waiting in the queue, executed, or dropped by clearQueue.
C39_OneLoopExactlyOnce ==
  /\ commandQueue.loops <= 1
  /\ commandQueue.processing <=> commandQueue.loops = 1
  /\ commandQueue.loops = 0 => commandQueue.queue = <<>>
  /\ \A id \in 1..commandQueue.enqueued :
       Occurrences(commandQueue.queue, id)
         + Occurrences(commandQueue.executed, id)
         + (IF id \in commandQueue.cleared THEN 1 ELSE 0) = 1

\* C39 witness: MaxQueued commands were enqueued, some of them while a
\* loop was at its await; clearQueue dropped one that was waiting, a
\* command enqueued after it was run, three or more were run in all, and
\* no loop is active any more.
C39_Witness ==
  /\ commandQueue.enqueued = MaxQueued
  /\ commandQueue.loops = 0
  /\ commandQueue.cleared # {}
  /\ Len(commandQueue.executed) >= 3
  /\ \E n \in 2..Len(commandQueue.executed) :
       \E id \in commandQueue.cleared :
         commandQueue.executed[n].id > id

\* C40 (as claimed): from the popup's 'disconnect' message until its next
\* 'connect' or 'updateConfig' message the extension has no socket that is
\* connecting or open.
C40_StaysDisconnected ==
  ext.userDisconnected => ext.ws \notin {"CONNECTING", "OPEN"}

\* C38 (as claimed): whatever frames a connection sends, auth frames
\* between its command frames included, no more than 100 of its command
\* frames are accepted at one instant (and so in any window of 60000 ms).
C38_WindowBound ==
  \A c \in DOMAIN accepted : accepted[c] <= maxRequests
====
